---- MODULE Spec2Model ----
(***************************************************************************)
(* Model of multi-postgres-mcp-server: the statement classifier            *)
(* (isSingleStatement), the pool registry (getOrCreatePool), the borrow    *)
(* wrapper (withPool) and the pg_query / pg_explain tool handlers.         *)
(*                                                                         *)
(* SQL text is a sequence of one-character strings.  Positions are 0-based *)
(* as in the source; At(sql, i) reads character i.                         *)
(***************************************************************************)
EXTENDS Integers, Sequences, FiniteSets, TLC

VARIABLES
    sql,        \* classifier run: the text handed to isSingleStatement
    classified, \* classifier run: has isSingleStatement returned?
    verdict,    \* classifier run: the boolean it returned
    file,       \* the configuration file at CONFIG_PATH: content and mtime
    configCache,\* let configCache: <<>> for null, or <<the cache record>>
    cacheAge,   \* Date.now() - configCache.loadedAt, in ms, up to the TTL
    pools,      \* const pools: label -> <<>> or <<PoolEntry>>
    poolObjs,   \* every pg.Pool constructed so far, by identity
    calls,      \* the tool calls in flight or finished, by slot
    started,    \* number of tool calls started so far
    edits,      \* number of times the configuration file was rewritten
    LABEL_FILTER, \* const LABEL_FILTER = getArg("--label"), "" when not given
    shutdowns,  \* the invocations of shutdown(): the pools each one awaits
    exited,     \* has process.exit been called?
    input,      \* function run: the arguments a pure function is applied to
    output      \* function run: <<>>, or <<what the function returned>>

classifierVars == <<sql, classified, verdict>>

functionVars == <<input, output>>

\* What the process is started with and how it ends.
processVars == <<LABEL_FILTER, shutdowns, exited>>

serverVars ==
    <<file, configCache, cacheAge, pools, poolObjs, calls, started, edits,
      LABEL_FILTER, shutdowns, exited>>

vars == <<sql, classified, verdict, file, configCache, cacheAge, pools,
          poolObjs, calls, started, edits, LABEL_FILTER, shutdowns, exited,
          input, output>>

----------------------------------------------------------------------------
(* Bounds *)

\* Longest input of the classifier run, counted in lexemes.
MaxLexemes == 4

\* Tool calls started in one run of the server (at most two are in flight at
\* any time, see Slots).
MaxCalls == 2

\* Rewrites of the configuration file in one run of the server.
MaxEdits == 1

\* SIGTERM / SIGINT signals delivered in one run of the server.
MaxSignals == 2

\* Rows a statement returns in a function run.
MaxRows == 3

\* Pieces (literal text or placeholder) a configuration string is made of.
MaxPieces == 2

----------------------------------------------------------------------------
(* Characters *)

\* Characters String.prototype.trim() strips, as far as the alphabet has them.
Whitespace == {" ", "\n"}

\* The class [a-zA-Z0-9_] of the dollar-tag scan, as far as the alphabet has it.
TagChars == {"a", "1", "_"}

\* sql[i] of the source (0-based).
At(s, i) == s[i + 1]

\* sql.substring(from, to) of the source (0-based, to exclusive).
Substring(s, from, to) == SubSeq(s, from + 1, to)

\* Does pat occur in s at 0-based position k?
MatchesAt(s, pat, k) ==
    /\ k + Len(pat) <= Len(s)
    /\ \A d \in 1..Len(pat) : s[k + d] = pat[d]

\* sql.indexOf(pat, from): the first position >= from where pat occurs, or -1.
IndexOf(s, pat, from) ==
    LET hits == {k \in from..(Len(s) - Len(pat)) : MatchesAt(s, pat, k)}
    IN  IF hits = {} THEN -1
        ELSE CHOOSE k \in hits : \A k2 \in hits : k <= k2

RECURSIVE TrimStart(_)
TrimStart(s) ==
    IF s # <<>> /\ Head(s) \in Whitespace THEN TrimStart(Tail(s)) ELSE s

RECURSIVE TrimEnd(_)
TrimEnd(s) ==
    IF s # <<>> /\ s[Len(s)] \in Whitespace
    THEN TrimEnd(SubSeq(s, 1, Len(s) - 1))
    ELSE s

\* String.prototype.trim()
Trim(s) == TrimEnd(TrimStart(s))

----------------------------------------------------------------------------
(* isSingleStatement *)

\* The inner loop of the single-quoted branch: from position i (just after the
\* opening quote) to the position of the closing quote, or Len(s) when the
\* literal is not closed; a doubled quote is skipped as a pair.
RECURSIVE SingleQuoteEnd(_, _)
SingleQuoteEnd(s, i) ==
    IF i < Len(s)
    THEN IF At(s, i) = "'"
         THEN IF i + 1 < Len(s) /\ At(s, i + 1) = "'"
              THEN SingleQuoteEnd(s, i + 2)
              ELSE i
         ELSE SingleQuoteEnd(s, i + 1)
    ELSE i

\* while (i < len && sql[i] !== '"') i++
RECURSIVE DoubleQuoteEnd(_, _)
DoubleQuoteEnd(s, i) ==
    IF i < Len(s) /\ At(s, i) # "\"" THEN DoubleQuoteEnd(s, i + 1) ELSE i

\* while (j < len && /[a-zA-Z0-9_]/.test(sql[j])) j++
RECURSIVE TagEnd(_, _)
TagEnd(s, j) ==
    IF j < Len(s) /\ At(s, j) \in TagChars THEN TagEnd(s, j + 1) ELSE j

\* A plausible slip: the closer is searched from i + 1, so "/*/" closes itself.
BlockCommentEnd_FromOpener(s, i) == IndexOf(s, <<"*", "/">>, i + 1)

\* const end = sql.indexOf("*/", i + 2)
BlockCommentEnd(s, i) == IndexOf(s, <<"*", "/">>, i + 2)

\* A plausible slip: a body whose closing tag is missing is not taken to run
\* to the end of the text; the scan resumes right after the opening tag.
DollarBodyEnd_ResumeAfterOpener(s, tag, j) ==
    LET endIdx == IndexOf(s, tag, j + 1)
    IN  IF endIdx = -1 THEN j + 1 - Len(tag) ELSE endIdx

\* const endIdx = sql.indexOf(tag, j + 1)
DollarBodyEnd(s, tag, j) == IndexOf(s, tag, j + 1)

\* A plausible slip: the character that ends the tag is not tested.
ClosesTag_Untested(s, j) == j < Len(s)

\* if (j < len && sql[j] === "$")
ClosesTag(s, j) == j < Len(s) /\ At(s, j) = "$"

\* A plausible slip: every semicolon outside the contexts rejects, trailing
\* or not.
SemicolonRejects_Always(s, i) == TRUE

\* A plausible slip: only the character right after the semicolon is looked at.
SemicolonRejects_NextCharOnly(s, i) ==
    i + 1 < Len(s) /\ At(s, i + 1) \notin Whitespace

\* A plausible slip: the rest is not trimmed before its length is tested.
SemicolonRejects_Untrimmed(s, i) == Len(Substring(s, i + 1, Len(s))) > 0

\* if (rest.length > 0) return false, with rest = sql.substring(i + 1).trim()
SemicolonRejects(s, i) == Len(Trim(Substring(s, i + 1, Len(s)))) > 0

\* An iteration ends with a return or goes on at a position.
Returns(value) == [returned |-> TRUE, value |-> value, next |-> -1]
GoesOn(next) == [returned |-> FALSE, value |-> FALSE, next |-> next]

\* A plausible slip: the increment that ends the loop body is missing.
NextChar_Stays(i) == i

\* i++ at the end of the loop body
NextChar(i) == i + 1

\* One iteration of the while loop of isSingleStatement at position i.
Iteration(s, i) ==
    LET ch == At(s, i)
        next == IF i + 1 < Len(s) THEN At(s, i + 1) ELSE ""
        j == TagEnd(s, i + 1)
    IN  IF ch = "-" /\ next = "-"
        THEN LET eol == IndexOf(s, <<"\n">>, i)
             IN  IF eol = -1 THEN Returns(TRUE) ELSE GoesOn(eol + 1)
        ELSE IF ch = "/" /\ next = "*"
        THEN LET end == BlockCommentEnd(s, i)
             IN  IF end = -1 THEN Returns(TRUE) ELSE GoesOn(end + 2)
        ELSE IF ch = "'"
        THEN GoesOn(SingleQuoteEnd(s, i + 1) + 1)
        ELSE IF ch = "\""
        THEN GoesOn(DoubleQuoteEnd(s, i + 1) + 1)
        ELSE IF ch = "$" /\ ClosesTag(s, j)
        THEN LET tag == Substring(s, i, j + 1)
                 endIdx == DollarBodyEnd(s, tag, j)
             IN  IF endIdx = -1 THEN Returns(TRUE)
                 ELSE GoesOn(endIdx + Len(tag))
        ELSE IF ch = ";" /\ SemicolonRejects(s, i)
        THEN Returns(FALSE)
        ELSE GoesOn(NextChar(i))

\* while (i < len) { ... }  return true
RECURSIVE ScanFrom(_, _)
ScanFrom(s, i) ==
    IF ~(i < Len(s)) THEN TRUE
    ELSE LET it == Iteration(s, i)
         IN  IF it.returned THEN it.value ELSE ScanFrom(s, it.next)

isSingleStatement(s) == ScanFrom(s, 0)

----------------------------------------------------------------------------
(* Configuration file and descriptors *)

\* A descriptor as DbConnectionSchema yields it.  The inputs vary label, host,
\* readOnly, poolSize and enabled; "" stands for an absent optional field.
Descriptor(label, host, readOnly, poolSize, enabled) ==
    [label |-> label, host |-> host, port |-> 5432, user |-> "mcp",
     password |-> "", database |-> "app", url |-> "", ssl |-> "",
     enabled |-> enabled, readOnly |-> readOnly, poolSize |-> poolSize]

\* The contents the configuration file takes in a run.
\* SourceA: a read-only target and a read-write one.
SourceA ==
    << Descriptor("staging", "db1", TRUE, 1, TRUE),
       Descriptor("prod", "db2", FALSE, 1, TRUE) >>

\* SourceB: staging has moved to another host (its connHash changes) and is
\* opened for writing, and prod is disabled.
SourceB ==
    << Descriptor("staging", "db3", FALSE, 1, TRUE),
       Descriptor("prod", "db2", FALSE, 1, FALSE) >>

Sources == {SourceA, SourceB}

\* SourceC: both labels occur twice; the first prod is disabled.
SourceC ==
    << Descriptor("staging", "db1", TRUE, 1, TRUE),
       Descriptor("prod", "db2", FALSE, 1, FALSE),
       Descriptor("staging", "db3", FALSE, 1, TRUE),
       Descriptor("prod", "db4", FALSE, 1, TRUE) >>

\* SourceD: SourceA with a poolSize for staging that is out of range.
SourceD ==
    << Descriptor("staging", "db1", TRUE, 150, TRUE),
       Descriptor("prod", "db2", FALSE, 1, TRUE) >>

\* A content JSON.parse throws on.
Garbage == <<"not a configuration">>

\* poolSize: z.coerce.number().int().min(1).max(100): the maximum
MaxPoolSize == 100

\* A plausible slip: the upper bound is not checked.
ValidPoolSize_Unbounded(n) == n >= 1

\* .int().min(1).max(100)
ValidPoolSize(n) == n >= 1 /\ n <= MaxPoolSize

\* JSON.parse(raw) and DbConfigSchema.parse(jsonWithEnv) do not throw: the
\* content is a configuration and every connection of it passes
\* DbConnectionSchema.
Validates(content) ==
    /\ content # Garbage
    /\ \A i \in 1..Len(content) : ValidPoolSize(content[i].poolSize)

Labels == {"staging", "prod"}

\* A plausible slip: findLastIndex, which keeps the last occurrence.
FindIndexByLabel_Last(conns, label) ==
    CHOOSE i \in 1..Len(conns) :
        /\ conns[i].label = label
        /\ \A k \in (i + 1)..Len(conns) : conns[k].label # label

\* arr.findIndex((x) => x.label === label), 1-based
FindIndexByLabel(conns, label) ==
    CHOOSE i \in 1..Len(conns) :
        /\ conns[i].label = label
        /\ \A k \in 1..(i - 1) : conns[k].label # label

\* connections.filter((c, i, arr) => arr.findIndex(...) === i), from index i on
RECURSIVE KeepFirstFrom(_, _)
KeepFirstFrom(conns, i) ==
    IF i > Len(conns) THEN <<>>
    ELSE (IF FindIndexByLabel(conns, conns[i].label) = i
          THEN <<conns[i]>> ELSE <<>>) \o KeepFirstFrom(conns, i + 1)

Enabled(c) == c.enabled # FALSE

\* A plausible slip: the filter is not applied.
MatchesFilter_Any(c) == TRUE

\* (c) => c.label === LABEL_FILTER
MatchesFilter(c) == c.label = LABEL_FILTER

\* A plausible slip: the disabled descriptors are dropped first, so that an
\* enabled duplicate takes the place of a disabled first occurrence.
ParseConfig_EnabledFirst(content) ==
    LET enabledOnly == SelectSeq(content, Enabled)
        deduplicated == KeepFirstFrom(enabledOnly, 1)
    IN  IF LABEL_FILTER # ""
        THEN SelectSeq(deduplicated, MatchesFilter)
        ELSE deduplicated

\* loadConfig, from the parsed content to the list it publishes: deduplicate
\* (keep first), drop disabled, apply the label filter.
ParseConfig(content) ==
    LET deduplicated == KeepFirstFrom(content, 1)
        enabledOnly == SelectSeq(deduplicated, Enabled)
    IN  IF LABEL_FILTER # ""
        THEN SelectSeq(enabledOnly, MatchesFilter)
        ELSE enabledOnly

\* connections.find((c) => c.label === label): <<>> or <<the descriptor>>
FindConnection(conns, label) ==
    LET hits == {i \in 1..Len(conns) : conns[i].label = label}
    IN  IF hits = {} THEN <<>>
        ELSE <<conns[CHOOSE i \in hits : \A k \in hits : i <= k]>>

----------------------------------------------------------------------------
(* Pool registry *)

\* A plausible slip: a field that cfg uses is left out of the hash.
connHash_WithoutHost(c) ==
    [h |-> "", p |-> c.port, u |-> c.user, pw |-> c.password,
     d |-> c.database, url |-> c.url, ssl |-> c.ssl, ps |-> c.poolSize]

\* The fields JSON.stringify serialises in connHash.
connHash(c) ==
    [h |-> c.host, p |-> c.port, u |-> c.user, pw |-> c.password,
     d |-> c.database, url |-> c.url, ssl |-> c.ssl, ps |-> c.poolSize]

\* Identities of the pg.Pool objects a run can have: a call constructs at
\* most one, and a run may start with one constructed already.
PoolIds == 1..(MaxCalls + 1)

\* A pg.Pool that has not been constructed.
NoPool ==
    [made |-> FALSE, label |-> "", conn |-> <<>>, max |-> 0,
     ending |-> FALSE, ends |-> 0, out |-> 0]

\* The identity new pg.Pool(cfg) gets: the next unused one.
NewPoolId == 1 + Cardinality({p \in PoolIds : poolObjs[p].made})

\* A plausible slip: the entries are compared by identity, which no reload
\* preserves.
ReusesPool_NeverMatches(conn) == FALSE

\* if (existing && existing.hash === hash) return existing.pool
ReusesPool(conn) ==
    /\ pools[conn.label] # <<>>
    /\ pools[conn.label][1].hash = connHash(conn)

\* The pool getOrCreatePool(conn) returns.
PoolFor(conn) ==
    IF ReusesPool(conn) THEN pools[conn.label][1].pool ELSE NewPoolId

\* A plausible slip: the new pool is returned but never stored.
PoolsAfter_NotStored(conn) == pools

\* The registry after getOrCreatePool(conn): pools.set(conn.label, {pool, hash})
PoolsAfter(conn) ==
    IF ReusesPool(conn) THEN pools
    ELSE [pools EXCEPT ![conn.label] =
              <<[pool |-> NewPoolId, hash |-> connHash(conn)]>>]

\* The pool objects after getOrCreatePool(conn): existing.pool.end() on a
\* changed hash, and new pg.Pool(cfg) with max: conn.poolSize and the rest of
\* cfg filled from conn, which the object keeps as the descriptor it was
\* constructed from.
PoolObjsAfter(conn) ==
    IF ReusesPool(conn) THEN poolObjs
    ELSE LET ended ==
                 IF pools[conn.label] # <<>>
                 THEN [poolObjs EXCEPT
                          ![pools[conn.label][1].pool].ending = TRUE,
                          ![pools[conn.label][1].pool].ends = @ + 1]
                 ELSE poolObjs
         IN  [ended EXCEPT ![NewPoolId] =
                  [made |-> TRUE, label |-> conn.label,
                   conn |-> <<conn>>, max |-> conn.poolSize,
                   ending |-> FALSE, ends |-> 0, out |-> 0]]

----------------------------------------------------------------------------
(* Tool calls                                                              *)
(*                                                                         *)
(* An action is one turn of the event loop: a call arriving, or one        *)
(* awaited operation (stat, readFile, pool.connect, client.query)          *)
(* settling, together with every continuation that runs before the loop    *)
(* takes its next event.  calls[c].pc names the operation call c awaits.   *)
(***************************************************************************)

\* The server handles calls concurrently; two are enough to interleave.
Slots == {1, 2}

\* The tools that take a database and a query.
Tools == {"pg_query", "pg_explain"}

\* The statements callers send: a read, a write with a trailing semicolon,
\* and a write stacked behind a read.  `write` tells the database's side of
\* it: whether executing the statement changes data.
Queries ==
    { [text |-> <<"a">>, write |-> FALSE],
      [text |-> <<"a", ";">>, write |-> TRUE],
      [text |-> <<"a", ";", " ", "a">>, write |-> TRUE] }

IdleCall ==
    [pc |-> "idle", tool |-> "", database |-> "", query |-> <<>>,
     phase |-> "", parsed |-> <<>>, conn |-> <<>>,
     pconn |-> <<>>, pool |-> 0, cmds |-> <<>>, begun |-> "none",
     thrown |-> <<>>, result |-> <<>>, effect |-> "none",
     loads |-> 0, lookups |-> 0, borrows |-> 0, releases |-> 0]

\* The call as its handler starts: pg_query's handler calls getConnection
\* itself before withPool does, pg_explain's goes to withPool at once.
NewCall(tool, database, query) ==
    [IdleCall EXCEPT !.tool = tool, !.database = database, !.query = query,
                     !.phase = IF tool = "pg_query"
                               THEN "handler" ELSE "withPool"]

\* The error payload each handler returns for a multi-statement text.
MultiStatementError(tool) ==
    [isError |-> TRUE,
     text |-> IF tool = "pg_query"
              THEN <<"Error: ", "Multi-statement queries are not allowed.",
                     " Send one statement at a time.">>
              ELSE <<"Error: ", "Multi-statement queries are not allowed.">>]

\* errorResult(e): `Error: ${msg}`, isError: true; e is the message, in pieces
errorResult(e) == [isError |-> TRUE, text |-> <<"Error: ">> \o e]

\* pg_list_databases: one line per connection, `- ${c.label}: ${addr}${suffix}`
\* (the port, the same number in every descriptor here, is left out of addr)
ListLine(c) ==
    [label |-> c.label,
     addr |-> IF c.url # "" THEN <<"(connection string)">>
              ELSE <<c.user, "@", c.host, "/", c.database>>,
     flags |-> (IF c.ssl # "" THEN <<"SSL">> ELSE <<>>)
               \o (IF ~c.readOnly THEN <<"RW">> ELSE <<>>)]

\* The payload pg_list_databases returns for the list loadConfig gave it.
ListResult(list) ==
    IF Len(list) = 0
    THEN [isError |-> FALSE,
          text |-> <<"No databases available.">>
                   \o (IF LABEL_FILTER # ""
                       THEN <<"Filter: --label ", LABEL_FILTER>> ELSE <<>>),
          lines |-> <<>>]
    ELSE [isError |-> FALSE,
          text |-> <<"Available databases">>,
          lines |-> [i \in 1..Len(list) |-> ListLine(list[i])]]

\* The payload of a call whose statement ran: rows or the plan.
SuccessResult == [isError |-> FALSE, text |-> <<"rows">>]

\* A plausible slip: the check is skipped.
RejectedByGate_Never(query) == FALSE

\* if (!isSingleStatement(query)) return { ... isError: true }
RejectedByGate(query) == ~isSingleStatement(query.text)

\* A finished call's response goes out before the event loop runs anything
\* else: nothing is pending to be returned.
NoneFinished == \A c \in Slots : calls[c].pc # "done"

\* pg.Pool: the calls for which pool p is connecting a new client.
Connecting(p) ==
    {c \in Slots : calls[c].pool = p /\ calls[c].pc = "connecting"}

\* pg.Pool: the calls waiting in pool p's queue for a client to come free.
Queued(p) ==
    {c \in Slots : calls[c].pool = p /\ calls[c].pc = "queued"}

\* pg.Pool _isFull(): the pool has max clients, checked out or connecting.
IsFull(objs, p) == objs[p].out + Cardinality(Connecting(p)) >= objs[p].max

\* pg.Pool: end() has been called and the last client is gone; the promise
\* end() returned is resolved.
Ended(p) ==
    /\ poolObjs[p].ending
    /\ poolObjs[p].out = 0
    /\ Connecting(p) = {}

\* An invocation of shutdown() has all its end() promises resolved: its
\* process.exit(0) runs before the event loop takes another event.
ExitDue ==
    \E k \in 1..Len(shutdowns) : \A p \in shutdowns[k] : Ended(p)

\* The process is alive and about to take its next event.
Running == ~exited /\ ~ExitDue

\* What one turn leaves behind: the call, the registry and the pool objects.
Turn(rec, ps, objs) == [call |-> rec, pools |-> ps, poolObjs |-> objs]

\* connections.map((c) => c.label).join(", ") || "(none)"
RECURSIVE Available(_)
Available(list) ==
    IF list = <<>> THEN <<"(none)">>
    ELSE IF Len(list) = 1 THEN <<list[1].label>>
    ELSE <<list[1].label, ", ">> \o Available(Tail(list))

\* A plausible slip: the message of the uncached version, which listed
\* nothing.
NotFound_NoList(label, list) ==
    <<"Database \"", label, "\" not found. Available: ", "(none)">>

\* `Database "${label}" not found. Available: ${available}`
NotFound(label, list) ==
    <<"Database \"", label, "\" not found. Available: ">> \o Available(list)

\* The handler's catch block: return errorResult(e).
Throws(rec, e) ==
    [rec EXCEPT !.pc = "done", !.thrown = e, !.result = <<errorResult(e)>>]

\* const CONFIG_CACHE_TTL = 5_000, in ms
CONFIG_CACHE_TTL == 5000

\* A plausible slip: the comparison is turned round.
IsFresh_Inverted(age) == age >= CONFIG_CACHE_TTL

\* elapsed < CONFIG_CACHE_TTL
IsFresh(age) == age < CONFIG_CACHE_TTL

\* loadConfig is entered (LoadConfig) and returns a list to getConnection
\* (AfterLoadConfig), with the cache as this turn has left it.
RECURSIVE LoadConfig(_, _, _)
RECURSIVE AfterLoadConfig(_, _, _, _)

\* loadConfig up to its first await: the cached list while the cache is
\* fresh, else a stat of the file, or a read when nothing is cached.
LoadConfig(rec, cache, fresh) ==
    LET r == [rec EXCEPT !.loads = @ + 1]
    IN  IF cache = <<>>
        THEN Turn([r EXCEPT !.pc = "lc_read"], pools, poolObjs)
        ELSE IF fresh
        THEN AfterLoadConfig(r, cache[1].connections, cache, fresh)
        ELSE Turn([r EXCEPT !.pc = "lc_stat"], pools, poolObjs)

\* getConnection finds the label in the list loadConfig returned, or throws.
\* In pg_query's handler the descriptor is kept as conn and withPool is
\* entered, which calls getConnection again; in withPool the descriptor goes
\* to getOrCreatePool and pool.connect() is awaited.
AfterLoadConfig(rec, list, cache, fresh) ==
    LET found == FindConnection(list, rec.database)
    IN  IF rec.phase = "list"
        THEN Turn([rec EXCEPT !.pc = "done", !.result = <<ListResult(list)>>],
                  pools, poolObjs)
        ELSE IF found = <<>>
        THEN Turn(Throws(rec, NotFound(rec.database, list)), pools, poolObjs)
        ELSE IF rec.phase = "handler"
        THEN LoadConfig([rec EXCEPT !.conn = found, !.phase = "withPool"],
                        cache, fresh)
        ELSE Turn([rec EXCEPT !.pconn = found,
                              !.pool = PoolFor(found[1]),
                              !.lookups = @ + 1,
                              !.borrows = @ + 1,
                              !.pc = IF IsFull(PoolObjsAfter(found[1]),
                                               PoolFor(found[1]))
                                     THEN "queued" ELSE "connecting"],
                  PoolsAfter(found[1]), PoolObjsAfter(found[1]))

\* A tool call arrives: the handler runs to its first pending await.
Call(c, tool, database, query) ==
    LET turn == IF RejectedByGate(query)
                THEN Turn([NewCall(tool, database, query) EXCEPT
                              !.pc = "done",
                              !.result = <<MultiStatementError(tool)>>],
                          pools, poolObjs)
                ELSE LoadConfig(NewCall(tool, database, query),
                                configCache, IsFresh(cacheAge))
    IN  /\ Running
        /\ NoneFinished
        /\ started < MaxCalls
        /\ calls[c].pc = "idle"
        /\ \A c2 \in Slots : c2 < c => calls[c2].pc # "idle"
        /\ started' = started + 1
        /\ calls' = [calls EXCEPT ![c] = turn.call]
        /\ pools' = turn.pools
        /\ poolObjs' = turn.poolObjs
        /\ UNCHANGED <<file, configCache, cacheAge, edits, classifierVars, functionVars,
                       processVars>>

\* A pg_query call arrives as the freshness window is about to end: the
\* loadConfig of the handler's getConnection reads the clock inside the
\* window and returns the cached list, the loadConfig of withPool's
\* getConnection reads it again a moment later, after the window has ended,
\* and awaits a stat.
CallAtWindowEnd(c, database, query) ==
    LET arrived == [NewCall("pg_query", database, query) EXCEPT
                       !.loads = @ + 1]
        turn == AfterLoadConfig(arrived, configCache[1].connections,
                                configCache, FALSE)
    IN  /\ Running
        /\ NoneFinished
        /\ started < MaxCalls
        /\ calls[c].pc = "idle"
        /\ \A c2 \in Slots : c2 < c => calls[c2].pc # "idle"
        /\ ~RejectedByGate(query)
        /\ configCache # <<>>
        /\ IsFresh(cacheAge)
        /\ cacheAge > 0
        /\ cacheAge' = CONFIG_CACHE_TTL
        /\ started' = started + 1
        /\ calls' = [calls EXCEPT ![c] = turn.call]
        /\ pools' = turn.pools
        /\ poolObjs' = turn.poolObjs
        /\ UNCHANGED <<file, configCache, edits, classifierVars, functionVars,
                       processVars>>

\* A pg_list_databases call arrives: its handler awaits loadConfig.
CallList(c) ==
    LET turn == LoadConfig([IdleCall EXCEPT !.tool = "pg_list_databases",
                                            !.phase = "list"],
                           configCache, IsFresh(cacheAge))
    IN  /\ Running
        /\ NoneFinished
        /\ started < MaxCalls
        /\ calls[c].pc = "idle"
        /\ \A c2 \in Slots : c2 < c => calls[c2].pc # "idle"
        /\ started' = started + 1
        /\ calls' = [calls EXCEPT ![c] = turn.call]
        /\ pools' = turn.pools
        /\ poolObjs' = turn.poolObjs
        /\ UNCHANGED <<file, configCache, cacheAge, edits, classifierVars, functionVars,
                       processVars>>

\* A plausible slip: a stat that fails leaves the cached list in use.
SameMtime_UnlessProbeFails(f, cache) ==
    f.exists => f.mtime = cache[1].mtime

\* stat resolved and s.mtimeMs === configCache.mtime; a stat that rejects
\* falls through.
SameMtime(f, cache) ==
    f.exists /\ f.mtime = cache[1].mtime

\* loadConfig: stat(CONFIG_PATH) settles after the freshness window.  An
\* unchanged mtime refreshes loadedAt and returns the cached list; a changed
\* one, or a failed stat, goes on to readFile.
LoadStat(c) ==
    LET same == SameMtime(file, configCache)
        turn == IF same
                THEN AfterLoadConfig(calls[c], configCache[1].connections,
                                     configCache, TRUE)
                ELSE Turn([calls[c] EXCEPT !.pc = "lc_read"], pools, poolObjs)
    IN  /\ Running
        /\ NoneFinished
        /\ calls[c].pc = "lc_stat"
        /\ cacheAge' = IF same THEN 0 ELSE cacheAge
        /\ calls' = [calls EXCEPT ![c] = turn.call]
        /\ pools' = turn.pools
        /\ poolObjs' = turn.poolObjs
        /\ UNCHANGED <<file, configCache, started, edits, classifierVars, functionVars,
                       processVars>>

\* A plausible slip: the catch block drops the snapshot it could not refresh.
CacheAfterFailedLoad_Dropped(cache) == <<>>

\* loadConfig's catch block logs and returns []: configCache is not assigned.
CacheAfterFailedLoad(cache) == cache

\* readFile, JSON.parse and DbConfigSchema.parse all succeed on the file.
Loadable == file.exists /\ Validates(file.content)

\* loadConfig: readFile settles; the content is parsed, validated,
\* deduplicated and filtered, and the second stat is awaited.  Any failure is
\* caught and [] returned.
LoadRead(c) ==
    LET turn == IF Loadable
                THEN Turn([calls[c] EXCEPT
                              !.pc = "lc_stat2",
                              !.parsed = ParseConfig(file.content)],
                          pools, poolObjs)
                ELSE AfterLoadConfig(calls[c], <<>>, configCache,
                                     IsFresh(cacheAge))
    IN  /\ Running
        /\ NoneFinished
        /\ calls[c].pc = "lc_read"
        /\ configCache' = IF Loadable THEN configCache
                          ELSE CacheAfterFailedLoad(configCache)
        /\ calls' = [calls EXCEPT ![c] = turn.call]
        /\ pools' = turn.pools
        /\ poolObjs' = turn.poolObjs
        /\ UNCHANGED <<file, cacheAge, started, edits, classifierVars, functionVars,
                       processVars>>

\* A plausible slip: the reload writes the new values into the descriptors
\* of the cached list, which other calls hold.
HeldAfterPublish_InPlace(conn, list) ==
    IF conn # <<>> /\ FindConnection(list, conn[1].label) # <<>>
    THEN FindConnection(list, conn[1].label)
    ELSE conn

\* configCache = { connections, mtime, loadedAt }: a new object holding the
\* new array is assigned; the array and the descriptors handed out before
\* are not written to, so that the conn another call holds stays as it is.
HeldAfterPublish(conn, list) == conn

\* loadConfig: the second stat settles; the cache is replaced and the list
\* returned.
LoadStat2(c) ==
    LET cache == <<[connections |-> calls[c].parsed,
                    mtime |-> IF file.exists THEN file.mtime ELSE 0]>>
        turn == AfterLoadConfig([calls[c] EXCEPT !.parsed = <<>>],
                                calls[c].parsed, cache, TRUE)
    IN  /\ Running
        /\ NoneFinished
        /\ calls[c].pc = "lc_stat2"
        /\ configCache' = cache
        /\ cacheAge' = 0
        /\ calls' = [c2 \in Slots |->
                        IF c2 = c THEN turn.call
                        ELSE [calls[c2] EXCEPT
                                 !.conn = HeldAfterPublish(@, calls[c].parsed)]]
        /\ pools' = turn.pools
        /\ poolObjs' = turn.poolObjs
        /\ UNCHANGED <<file, started, edits, classifierVars, functionVars,
                       processVars>>

\* A plausible slip: a plain BEGIN whatever the descriptor says.
BeginCommand_AlwaysReadWrite(rec) == "BEGIN"

\* The BEGIN each handler sends first on the borrowed client.
BeginCommand(rec) ==
    IF rec.tool = "pg_query"
    THEN IF rec.conn[1].readOnly
         THEN "BEGIN TRANSACTION READ ONLY"
         ELSE "BEGIN"
    ELSE "BEGIN"

\* The statement each handler sends after BEGIN.
StatementCommand(rec) ==
    IF rec.tool = "pg_query" THEN "QUERY" ELSE "EXPLAIN"

\* A plausible slip: pg_explain written as a copy of pg_query.
AfterStatementOk_AlwaysCommits(rec) == "COMMIT"

\* What follows a statement that succeeded: pg_query commits, pg_explain's
\* finally block rolls back.
AfterStatementOk(rec) ==
    IF rec.tool = "pg_query" THEN "COMMIT" ELSE "ROLLBACK"

\* A plausible slip: the catch block commits.
AfterStatementFailed_Commits(rec) == "COMMIT"

\* A plausible slip: a statement that failed is sent once more.
AfterStatementFailed_Retries(rec) == StatementCommand(rec)

\* What follows a statement that failed: the catch block of pg_query and the
\* finally block of pg_explain both roll back.
AfterStatementFailed(rec) == "ROLLBACK"

\* The await a command is sent under.
PcOf(cmd) ==
    IF cmd \in {"BEGIN", "BEGIN TRANSACTION READ ONLY"} THEN "begin"
    ELSE IF cmd \in {"QUERY", "EXPLAIN"} THEN "stmt"
    ELSE IF cmd = "COMMIT" THEN "commit"
    ELSE "rollback"

\* client.query(cmd) is called: the command is on its way.
Send(rec, cmd) ==
    [rec EXCEPT !.cmds = Append(@, [cmd |-> cmd, outcome |-> "pending"]),
                !.pc = PcOf(cmd)]

\* The command last sent has settled.
Settle(rec, outcome) ==
    [rec EXCEPT !.cmds[Len(rec.cmds)].outcome = outcome]

\* A plausible slip: release() after `await fn(client)` instead of in a
\* finally block, so that a throwing fn keeps the client.
WithPoolFinally_OnlyOnSuccess(rec) ==
    IF rec.thrown = <<>>
    THEN Turn([rec EXCEPT !.releases = @ + 1, !.pc = "done",
                          !.result = <<SuccessResult>>],
              pools,
              [poolObjs EXCEPT ![rec.pool].out = @ - 1])
    ELSE Turn([rec EXCEPT !.pc = "done",
                          !.result = <<errorResult(rec.thrown)>>],
              pools, poolObjs)

\* fn(client) has returned or thrown: withPool's finally block calls
\* client.release(), and the handler formats what fn returned or its catch
\* block returns errorResult(e).
WithPoolFinally(rec) ==
    Turn([rec EXCEPT !.releases = @ + 1, !.pc = "done",
                     !.result = IF rec.thrown = <<>>
                                THEN <<SuccessResult>>
                                ELSE <<errorResult(rec.thrown)>>],
         pools,
         [poolObjs EXCEPT ![rec.pool].out = @ - 1])

\* pool.connect() resolves with the client the pool has connected for this
\* call: fn(client) sends its BEGIN.  pg.Pool hands a client it was already
\* connecting to its caller whether or not end() has been called meanwhile.
ConnectOk(c) ==
    LET rec == calls[c]
    IN  /\ Running
        /\ NoneFinished
        /\ rec.pc = "connecting"
        /\ poolObjs' = [poolObjs EXCEPT ![rec.pool].out = @ + 1]
        /\ calls' = [calls EXCEPT ![c] = Send(rec, BeginCommand(rec))]
        /\ UNCHANGED <<file, configCache, cacheAge, pools, started, edits,
                       classifierVars, functionVars,
                       processVars>>

\* pool.connect() resolves for a call that waited in the queue of a full
\* pool: a client has come free.  pg.Pool serves its queue no more once end()
\* has been called.
QueueServed(c) ==
    LET rec == calls[c]
    IN  /\ Running
        /\ NoneFinished
        /\ rec.pc = "queued"
        /\ ~poolObjs[rec.pool].ending
        /\ ~IsFull(poolObjs, rec.pool)
        /\ poolObjs' = [poolObjs EXCEPT ![rec.pool].out = @ + 1]
        /\ calls' = [calls EXCEPT ![c] = Send(rec, BeginCommand(rec))]
        /\ UNCHANGED <<file, configCache, cacheAge, pools, started, edits,
                       classifierVars, functionVars,
                       processVars>>

\* pool.connect() rejects (connectionTimeoutMillis elapsed in the queue or
\* while connecting, connection refused): nothing was borrowed, the handler
\* returns errorResult.
ConnectFail(c) ==
    LET rec == calls[c]
    IN  /\ Running
        /\ NoneFinished
        /\ rec.pc \in {"connecting", "queued"}
        /\ calls' = [calls EXCEPT ![c] = Throws(rec, <<"connect failed">>)]
        /\ UNCHANGED <<file, configCache, cacheAge, pools, poolObjs,
                       started, edits, classifierVars, functionVars,
                       processVars>>

BeginOk(c) ==
    LET rec == calls[c]
    IN  /\ Running
        /\ NoneFinished
        /\ rec.pc = "begin"
        /\ calls' = [calls EXCEPT ![c] =
               Send([Settle(rec, "ok") EXCEPT
                        !.begun = IF rec.cmds[1].cmd = "BEGIN"
                                  THEN "rw" ELSE "ro"],
                    StatementCommand(rec))]
        /\ UNCHANGED <<file, configCache, cacheAge, pools, poolObjs,
                       started, edits, classifierVars, functionVars,
                       processVars>>

\* BEGIN is outside the try of both handlers: its failure leaves fn at once.
BeginFail(c) ==
    LET rec == calls[c]
        turn == WithPoolFinally([Settle(rec, "failed") EXCEPT
                                    !.thrown = <<"begin failed">>])
    IN  /\ Running
        /\ NoneFinished
        /\ rec.pc = "begin"
        /\ calls' = [calls EXCEPT ![c] = turn.call]
        /\ poolObjs' = turn.poolObjs
        /\ UNCHANGED <<file, configCache, cacheAge, pools, started, edits,
                       classifierVars, functionVars,
                       processVars>>

\* The database's side: a statement that changes data cannot succeed in a
\* transaction begun READ ONLY; any statement can fail (timeout, error).
CanSucceed(rec) == ~(rec.query.write /\ rec.begun = "ro")

StmtOk(c) ==
    LET rec == calls[c]
    IN  /\ Running
        /\ NoneFinished
        /\ rec.pc = "stmt"
        /\ CanSucceed(rec)
        /\ calls' = [calls EXCEPT ![c] =
               Send([Settle(rec, "ok") EXCEPT
                        !.effect = IF rec.query.write
                                   THEN "pending" ELSE "none"],
                    AfterStatementOk(rec))]
        /\ UNCHANGED <<file, configCache, cacheAge, pools, poolObjs,
                       started, edits, classifierVars, functionVars,
                       processVars>>

StmtFail(c) ==
    LET rec == calls[c]
    IN  /\ Running
        /\ NoneFinished
        /\ rec.pc = "stmt"
        /\ calls' = [calls EXCEPT ![c] =
               Send([Settle(rec, "failed") EXCEPT
                        !.thrown = <<"statement failed">>],
                    AfterStatementFailed(rec))]
        /\ UNCHANGED <<file, configCache, cacheAge, pools, poolObjs,
                       started, edits, classifierVars, functionVars,
                       processVars>>

CommitOk(c) ==
    LET rec == calls[c]
        turn == WithPoolFinally([Settle(rec, "ok") EXCEPT
                    !.effect = IF @ = "pending" THEN "committed" ELSE @])
    IN  /\ Running
        /\ NoneFinished
        /\ rec.pc = "commit"
        /\ calls' = [calls EXCEPT ![c] = turn.call]
        /\ poolObjs' = turn.poolObjs
        /\ UNCHANGED <<file, configCache, cacheAge, pools, started, edits,
                       classifierVars, functionVars,
                       processVars>>

\* COMMIT is inside the try of pg_query: its failure reaches the catch block.
CommitFail(c) ==
    LET rec == calls[c]
    IN  /\ Running
        /\ NoneFinished
        /\ rec.pc = "commit"
        /\ calls' = [calls EXCEPT ![c] =
               Send([Settle(rec, "failed") EXCEPT
                        !.thrown = <<"commit failed">>],
                    "ROLLBACK")]
        /\ UNCHANGED <<file, configCache, cacheAge, pools, poolObjs,
                       started, edits, classifierVars, functionVars,
                       processVars>>

RollbackOk(c) ==
    LET rec == calls[c]
        turn == WithPoolFinally([Settle(rec, "ok") EXCEPT
                    !.effect = IF @ = "pending" THEN "rolled back" ELSE @])
    IN  /\ Running
        /\ NoneFinished
        /\ rec.pc = "rollback"
        /\ calls' = [calls EXCEPT ![c] = turn.call]
        /\ poolObjs' = turn.poolObjs
        /\ UNCHANGED <<file, configCache, cacheAge, pools, started, edits,
                       classifierVars, functionVars,
                       processVars>>

\* A plausible slip: the rollback's rejection is not caught and replaces the
\* error (or the result) the block was leaving with.
AfterRollbackFailed_Propagates(thrown) == <<"rollback failed">>

\* client.query("ROLLBACK").catch(() => {}): the rejection is swallowed, what
\* the block was leaving with (an error, or none) stands.
AfterRollbackFailed(thrown) == thrown

RollbackFail(c) ==
    LET rec == calls[c]
        turn == WithPoolFinally([Settle(rec, "failed") EXCEPT
                                    !.thrown = AfterRollbackFailed(@)])
    IN  /\ Running
        /\ NoneFinished
        /\ rec.pc = "rollback"
        /\ calls' = [calls EXCEPT ![c] = turn.call]
        /\ poolObjs' = turn.poolObjs
        /\ UNCHANGED <<file, configCache, cacheAge, pools, started, edits,
                       classifierVars, functionVars,
                       processVars>>

\* The handler's return value is sent to the caller; the slot is free again.
Return(c) ==
    /\ ~exited
    /\ calls[c].pc = "done"
    /\ calls' = [calls EXCEPT ![c] = IdleCall]
    /\ UNCHANGED <<file, configCache, cacheAge, pools, poolObjs, started,
                   edits, classifierVars, functionVars,
                       processVars>>

----------------------------------------------------------------------------
(* Environment: the file is rewritten, time passes *)

\* The file is written: with another content, or with the content it has
\* (only its mtime changes).
WriteConfig(content) ==
    /\ Running
    /\ NoneFinished
    /\ edits < MaxEdits
    /\ file' = [exists |-> TRUE, content |-> content,
                mtime |-> file.mtime + 1]
    /\ edits' = edits + 1
    /\ UNCHANGED <<configCache, cacheAge, pools, poolObjs, calls, started,
                       classifierVars, functionVars,
                       processVars>>

\* The file is removed.
DeleteConfig ==
    /\ Running
    /\ NoneFinished
    /\ edits < MaxEdits
    /\ file.exists
    /\ file' = [exists |-> FALSE, content |-> Garbage, mtime |-> file.mtime]
    /\ edits' = edits + 1
    /\ UNCHANGED <<configCache, cacheAge, pools, poolObjs, calls, started,
                   classifierVars, functionVars, processVars>>

\* d ms pass.  Once CONFIG_CACHE_TTL has elapsed since configCache.loadedAt
\* the cache stays stale until it is loaded again, however much longer it
\* takes.
TimePasses(d) ==
    /\ Running
    /\ NoneFinished
    /\ configCache # <<>>
    /\ IsFresh(cacheAge)
    /\ cacheAge' = IF cacheAge + d < CONFIG_CACHE_TTL
                   THEN cacheAge + d ELSE CONFIG_CACHE_TTL
    /\ UNCHANGED <<file, configCache, pools, poolObjs, calls, started, edits,
                       classifierVars, functionVars,
                       processVars>>

----------------------------------------------------------------------------
(* Shutdown *)

\* The pools the registry holds.
Registered == {pools[l][1].pool : l \in {k \in Labels : pools[k] # <<>>}}

\* The pool objects after drainAllPools has called end() on the registry's.
PoolObjsAfterDrain ==
    [p \in PoolIds |->
        IF p \in Registered
        THEN [poolObjs[p] EXCEPT !.ending = TRUE, !.ends = @ + 1]
        ELSE poolObjs[p]]

\* SIGTERM or SIGINT: shutdown() calls drainAllPools, which calls end() on
\* every pool of the registry, clears the registry and awaits the ends.  With
\* nothing to wait for (no pool, or no pool with a client) process.exit(0)
\* follows in the same turn.
Shutdown ==
    /\ Running
    /\ NoneFinished
    /\ Len(shutdowns) < MaxSignals
    /\ poolObjs' = PoolObjsAfterDrain
    /\ pools' = [l \in Labels |-> <<>>]
    /\ shutdowns' = Append(shutdowns, Registered)
    /\ exited' = \A p \in Registered :
                    poolObjs[p].out = 0 /\ Connecting(p) = {}
    /\ UNCHANGED <<file, configCache, cacheAge, calls, started, edits,
                   LABEL_FILTER, classifierVars, functionVars>>

\* await drainAllPools() returns in an invocation of shutdown():
\* process.exit(0).
Exit ==
    /\ ~exited
    /\ ExitDue
    /\ exited' = TRUE
    /\ UNCHANGED <<file, configCache, cacheAge, pools, poolObjs, calls,
                   started, edits, LABEL_FILTER, shutdowns, classifierVars, functionVars>>

----------------------------------------------------------------------------
(* The server *)

\* The process after main() has connected the transport, whatever --label is.
ServerStart ==
    /\ file = [exists |-> TRUE, content |-> SourceA, mtime |-> 1]
    /\ configCache = <<>>
    /\ cacheAge = 0
    /\ pools = [l \in Labels |-> <<>>]
    /\ poolObjs = [p \in PoolIds |-> NoPool]
    /\ calls = [c \in Slots |-> IdleCall]
    /\ started = 0
    /\ edits = 0
    /\ shutdowns = <<>>
    /\ exited = FALSE

\* The process started without --label.
ServerInit ==
    /\ ServerStart
    /\ LABEL_FILTER = ""

Init ==
    /\ ServerInit
    /\ sql = <<>>
    /\ classified = FALSE
    /\ verdict = FALSE
    /\ input = <<>>
    /\ output = <<>>

Next ==
    \/ \E c \in Slots, tool \in Tools, database \in Labels, query \in Queries :
          Call(c, tool, database, query)
    \/ \E c \in Slots : LoadStat(c)
    \/ \E c \in Slots : LoadRead(c)
    \/ \E c \in Slots : LoadStat2(c)
    \/ \E c \in Slots : ConnectOk(c)
    \/ \E c \in Slots : QueueServed(c)
    \/ \E c \in Slots : ConnectFail(c)
    \/ \E c \in Slots : BeginOk(c)
    \/ \E c \in Slots : BeginFail(c)
    \/ \E c \in Slots : StmtOk(c)
    \/ \E c \in Slots : StmtFail(c)
    \/ \E c \in Slots : CommitOk(c)
    \/ \E c \in Slots : CommitFail(c)
    \/ \E c \in Slots : RollbackOk(c)
    \/ \E c \in Slots : RollbackFail(c)
    \/ \E c \in Slots : Return(c)
    \/ \E content \in Sources \cup {Garbage} : WriteConfig(content)
    \/ TimePasses(CONFIG_CACHE_TTL)

Spec == Init /\ [][Next]_vars

\* The server after a first pg_query call on staging has come and gone: the
\* configuration is cached, within its freshness window or past it, and the
\* registry holds the pool that call had constructed, its client idle.
WarmInit ==
    /\ LABEL_FILTER = ""
    /\ file = [exists |-> TRUE, content |-> SourceA, mtime |-> 1]
    /\ configCache = <<[connections |-> ParseConfig(SourceA), mtime |-> 1]>>
    /\ cacheAge \in {0, CONFIG_CACHE_TTL}
    /\ pools = [l \in Labels |->
                  IF l = "staging"
                  THEN <<[pool |-> 1, hash |-> connHash(SourceA[1])]>>
                  ELSE <<>>]
    /\ poolObjs = [p \in PoolIds |->
                     IF p = 1
                     THEN [made |-> TRUE, label |-> "staging",
                           conn |-> <<SourceA[1]>>,
                           max |-> SourceA[1].poolSize,
                           ending |-> FALSE, ends |-> 0, out |-> 0]
                     ELSE NoPool]
    /\ calls = [c \in Slots |-> IdleCall]
    /\ started = 0
    /\ edits = 0
    /\ shutdowns = <<>>
    /\ exited = FALSE
    /\ input = <<>>
    /\ output = <<>>
    /\ sql = <<>>
    /\ classified = FALSE
    /\ verdict = FALSE

\* Which pool a call gets does not depend on its statement: the calls are
\* pg_query calls with a read.
RegistryNext ==
    \/ \E c \in Slots, database \in Labels :
          Call(c, "pg_query", database, [text |-> <<"a">>, write |-> FALSE])
    \/ \E c \in Slots : LoadStat(c)
    \/ \E c \in Slots : LoadRead(c)
    \/ \E c \in Slots : LoadStat2(c)
    \/ \E c \in Slots : ConnectOk(c)
    \/ \E c \in Slots : QueueServed(c)
    \/ \E c \in Slots : ConnectFail(c)
    \/ \E c \in Slots : BeginOk(c)
    \/ \E c \in Slots : BeginFail(c)
    \/ \E c \in Slots : StmtOk(c)
    \/ \E c \in Slots : StmtFail(c)
    \/ \E c \in Slots : CommitOk(c)
    \/ \E c \in Slots : CommitFail(c)
    \/ \E c \in Slots : RollbackOk(c)
    \/ \E c \in Slots : RollbackFail(c)
    \/ \E c \in Slots : Return(c)
    \/ \E content \in Sources \cup {Garbage} : WriteConfig(content)
    \/ TimePasses(CONFIG_CACHE_TTL)

RegistrySpec == WarmInit /\ [][RegistryNext]_vars

\* The server with signals delivered to it.
\* What is shut down does not depend on the statement: the calls are pg_query
\* calls with a read, the file takes its valid contents.
ShutdownNext ==
    \/ \E c \in Slots, database \in Labels :
          Call(c, "pg_query", database, [text |-> <<"a">>, write |-> FALSE])
    \/ \E c \in Slots : LoadStat(c)
    \/ \E c \in Slots : LoadRead(c)
    \/ \E c \in Slots : LoadStat2(c)
    \/ \E c \in Slots : ConnectOk(c)
    \/ \E c \in Slots : QueueServed(c)
    \/ \E c \in Slots : ConnectFail(c)
    \/ \E c \in Slots : BeginOk(c)
    \/ \E c \in Slots : BeginFail(c)
    \/ \E c \in Slots : StmtOk(c)
    \/ \E c \in Slots : StmtFail(c)
    \/ \E c \in Slots : CommitOk(c)
    \/ \E c \in Slots : CommitFail(c)
    \/ \E c \in Slots : RollbackOk(c)
    \/ \E c \in Slots : RollbackFail(c)
    \/ \E c \in Slots : Return(c)
    \/ \E content \in Sources : WriteConfig(content)
    \/ TimePasses(CONFIG_CACHE_TTL)
    \/ Shutdown
    \/ Exit

ShutdownSpec == Init /\ [][ShutdownNext]_vars

\* The server as the configuration loader sees it: started with or without
\* --label, the file taking every content, time passing in steps shorter
\* than the freshness window.  What the loader does for a call does not
\* depend on its statement beyond the gate: the statements are a read and a
\* stacked pair.
LoaderInit ==
    /\ ServerStart
    /\ LABEL_FILTER \in {"", "prod"}
    /\ sql = <<>>
    /\ classified = FALSE
    /\ verdict = FALSE
    /\ input = <<>>
    /\ output = <<>>

LoaderNext ==
    \/ \E c \in Slots : CallList(c)
    \/ \E c \in Slots, tool \in Tools, database \in Labels,
          query \in {q \in Queries : ~q.write \/ Len(q.text) > 2} :
          Call(c, tool, database, query)
    \/ \E c \in Slots : LoadStat(c)
    \/ \E c \in Slots : LoadRead(c)
    \/ \E c \in Slots : LoadStat2(c)
    \/ \E c \in Slots : ConnectOk(c)
    \/ \E c \in Slots : QueueServed(c)
    \/ \E c \in Slots : ConnectFail(c)
    \/ \E c \in Slots : BeginOk(c)
    \/ \E c \in Slots : BeginFail(c)
    \/ \E c \in Slots : StmtOk(c)
    \/ \E c \in Slots : StmtFail(c)
    \/ \E c \in Slots : CommitOk(c)
    \/ \E c \in Slots : CommitFail(c)
    \/ \E c \in Slots : RollbackOk(c)
    \/ \E c \in Slots : RollbackFail(c)
    \/ \E c \in Slots : Return(c)
    \/ \E content \in Sources \cup {SourceC, Garbage} : WriteConfig(content)
    \/ \E d \in {2500, CONFIG_CACHE_TTL} : TimePasses(d)

LoaderSpec == LoaderInit /\ [][LoaderNext]_vars

\* The server as a changing file sees it: started with or without --label on a file
\* that is valid, invalid or missing, and the file rewritten or removed under
\* it.  What the loader does for a call depends neither on the statement nor
\* on how the database answers: the calls are pg_list_databases calls and
\* pg_query calls with a read, and the database answers every command.
ReloadInit ==
    /\ LABEL_FILTER \in {"", "prod"}
    /\ file \in {[exists |-> TRUE, content |-> content, mtime |-> 1] :
                    content \in Sources \cup {Garbage}}
               \cup {[exists |-> FALSE, content |-> Garbage, mtime |-> 1]}
    /\ configCache = <<>>
    /\ cacheAge = 0
    /\ pools = [l \in Labels |-> <<>>]
    /\ poolObjs = [p \in PoolIds |-> NoPool]
    /\ calls = [c \in Slots |-> IdleCall]
    /\ started = 0
    /\ edits = 0
    /\ shutdowns = <<>>
    /\ exited = FALSE
    /\ input = <<>>
    /\ output = <<>>
    /\ sql = <<>>
    /\ classified = FALSE
    /\ verdict = FALSE

ReloadNext ==
    \/ \E c \in Slots : CallList(c)
    \/ \E c \in Slots, database \in Labels :
          Call(c, "pg_query", database, [text |-> <<"a">>, write |-> FALSE])
    \/ \E c \in Slots, database \in Labels :
          CallAtWindowEnd(c, database, [text |-> <<"a">>, write |-> FALSE])
    \/ \E c \in Slots : LoadStat(c)
    \/ \E c \in Slots : LoadRead(c)
    \/ \E c \in Slots : LoadStat2(c)
    \/ \E c \in Slots : ConnectOk(c)
    \/ \E c \in Slots : QueueServed(c)
    \/ \E c \in Slots : BeginOk(c)
    \/ \E c \in Slots : StmtOk(c)
    \/ \E c \in Slots : CommitOk(c)
    \/ \E c \in Slots : Return(c)
    \/ \E content \in Sources \cup {SourceC, SourceD, Garbage} :
          WriteConfig(content)
    \/ DeleteConfig
    \/ \E d \in {2500, CONFIG_CACHE_TTL} : TimePasses(d)

ReloadSpec == ReloadInit /\ [][ReloadNext]_vars

\* What the event loop does by itself: an await that is pending settles (the
\* file system and the database answer), and a handler that has finished
\* returns its result.
Settles ==
    \E c \in Slots :
       \/ LoadStat(c)
       \/ LoadRead(c)
       \/ LoadStat2(c)
       \/ ConnectOk(c)
       \/ QueueServed(c)
       \/ BeginOk(c)
       \/ StmtOk(c)
       \/ CommitOk(c)
       \/ Return(c)

\* ReloadSpec, with every pending await settling in the end.  Calls, edits of
\* the file and the passing of the window come from outside and need not
\* happen.
FairReloadSpec == ReloadSpec /\ WF_vars(Settles)

----------------------------------------------------------------------------
(* pg_query's payload: a function run on one result and one limit *)

\* A plausible slip: a result of exactly limit rows counts as truncated.
Truncated_Inclusive(totalRows, limit) ==
    limit # <<>> /\ totalRows >= limit[1]

\* limit && totalRows > limit, limit being <<>> when the caller gave none
Truncated(totalRows, limit) ==
    limit # <<>> /\ totalRows > limit[1]

\* What pg_query's handler makes of the result withPool returned: a message
\* when there are no rows, else the payload it serialises (all columns here
\* being one column "c").
RowsPayload(result, limit) ==
    IF Len(result.rows) = 0
    THEN [message |-> "No rows returned.", affected |-> result.rowCount]
    ELSE LET totalRows == Len(result.rows)
             rows == IF Truncated(totalRows, limit)
                     THEN SubSeq(result.rows, 1, limit[1])
                     ELSE result.rows
             payload == [columns |-> <<"c">>, rows |-> rows,
                         rowCount |-> result.rowCount]
         IN  IF Truncated(totalRows, limit)
             THEN [f \in DOMAIN payload \cup {"truncated", "totalRows", "limit"}
                     |-> IF f = "truncated" THEN TRUE
                         ELSE IF f = "totalRows" THEN totalRows
                         ELSE IF f = "limit" THEN limit[1]
                         ELSE payload[f]]
             ELSE payload

\* Every sequence of at most n rows.
RECURSIVE RowSeqs(_)
RowSeqs(n) ==
    IF n = 0 THEN {<<>>}
    ELSE RowSeqs(n - 1)
         \cup {Append(r, v) : r \in {q \in RowSeqs(n - 1) : Len(q) = n - 1},
                              v \in {"r1", "r2"}}

\* The results a statement can come back with: rows, of which rowCount is
\* the number, or no rows and the number of rows the statement affected.
QueryResults ==
    {[rows |-> rows, rowCount |-> Len(rows)] : rows \in RowSeqs(MaxRows) \ {<<>>}}
    \cup {[rows |-> <<>>, rowCount |-> n] : n \in 0..1}

\* limit: z.coerce.number().int().positive().optional()
Limits == {<<>>} \cup {<<n>> : n \in 1..(MaxRows + 1)}

PayloadInit ==
    /\ ServerInit
    /\ sql = <<>>
    /\ classified = FALSE
    /\ verdict = FALSE
    /\ input \in [result : QueryResults, limit : Limits]
    /\ output = <<>>

FormatRows ==
    /\ output = <<>>
    /\ output' = <<RowsPayload(input.result, input.limit)>>
    /\ UNCHANGED <<input, classifierVars, serverVars>>

PayloadNext == FormatRows

PayloadSpec == PayloadInit /\ [][PayloadNext]_vars

----------------------------------------------------------------------------
(* resolveEnvVars: a function run on one JSON value and one environment    *)
(*                                                                         *)
(* A JSON value is [type, value]: a string's value is its characters, an   *)
(* array's its elements, an object's its entries [key, value] in           *)
(* Object.entries order.  process.env maps a name to <<>> (unset) or        *)
(* <<its value>>.                                                          *)
(***************************************************************************)

\* process.env
ProcessEnv == input.env

\* process.env[name]: <<>> for undefined
EnvGet(name) ==
    IF name \in DOMAIN ProcessEnv THEN ProcessEnv[name] ELSE <<>>

\* A plausible slip: || in place of ??, so that a variable set to the empty
\* string counts as unset.
EnvValueOr_EmptyIsUnset(name, fallback) ==
    IF EnvGet(Trim(name)) # <<>> /\ EnvGet(Trim(name))[1] # <<>>
    THEN EnvGet(Trim(name))[1]
    ELSE fallback

\* process.env[name.trim()] ?? fallback ?? "", fallback being a string always
EnvValueOr(name, fallback) ==
    IF EnvGet(Trim(name)) # <<>> THEN EnvGet(Trim(name))[1] ELSE fallback

\* const [name, ...rest] = expr.split(":-")
ExprName(expr) ==
    LET k == IndexOf(expr, <<":", "-">>, 0)
    IN  IF k = -1 THEN expr ELSE Substring(expr, 0, k)

\* rest.join(":-"): what follows the first ":-", "" when there is none
ExprFallback(expr) ==
    LET k == IndexOf(expr, <<":", "-">>, 0)
    IN  IF k = -1 THEN <<>> ELSE Substring(expr, k + 2, Len(expr))

\* /\$\{([^}]+)\}/ tried at position i: the position of the closing brace,
\* or -1 when there is no match at i.
PlaceholderEnd(s, i) ==
    IF /\ MatchesAt(s, <<"$", "{">>, i)
       /\ i + 2 < Len(s)
       /\ At(s, i + 2) # "}"
    THEN IndexOf(s, <<"}">>, i + 3)
    ELSE -1

\* obj.replace(/\$\{([^}]+)\}/g, ...) from position i on
RECURSIVE ReplaceFrom(_, _)
ReplaceFrom(s, i) ==
    IF i >= Len(s) THEN <<>>
    ELSE LET j == PlaceholderEnd(s, i)
             expr == Substring(s, i + 2, j)
         IN  IF j = -1
             THEN <<At(s, i)>> \o ReplaceFrom(s, i + 1)
             ELSE EnvValueOr(ExprName(expr), ExprFallback(expr))
                  \o ReplaceFrom(s, j + 1)

RECURSIVE resolveEnvVars(_)
resolveEnvVars(obj) ==
    IF obj.type = "string"
    THEN [type |-> "string", value |-> ReplaceFrom(obj.value, 0)]
    ELSE IF obj.type = "array"
    THEN [type |-> "array",
          value |-> [i \in 1..Len(obj.value) |->
                         resolveEnvVars(obj.value[i])]]
    ELSE IF obj.type = "object"
    THEN [type |-> "object",
          value |-> [i \in 1..Len(obj.value) |->
                         [key |-> obj.value[i].key,
                          value |-> resolveEnvVars(obj.value[i].value)]]]
    ELSE obj

\* The pieces configuration strings are made of: literal text, which holds
\* no placeholder, and placeholders ${name} and ${name:-fallback}.
Literal(text) == [kind |-> "literal", text |-> text]

Placeholder(name, fallback) ==
    [kind |-> "placeholder", name |-> name, fallback |-> fallback]

Pieces ==
    { Literal(<<"x">>), Literal(<<"$">>), Literal(<<"$", "{", "}">>),
      Placeholder(<<"A">>, <<>>), Placeholder(<<"B">>, <<>>),
      Placeholder(<<"A">>, <<<<"d">>>>), Placeholder(<<"B">>, <<<<"d">>>>),
      Placeholder(<<"B">>, <<<<"d", ":", "-", "e">>>>) }

\* The text of a piece as it stands in the file.
Render(piece) ==
    IF piece.kind = "literal" THEN piece.text
    ELSE <<"$", "{">> \o piece.name
         \o (IF piece.fallback = <<>> THEN <<>>
             ELSE <<":", "-">> \o piece.fallback[1])
         \o <<"}">>

RECURSIVE RenderAll(_)
RenderAll(pieces) ==
    IF pieces = <<>> THEN <<>>
    ELSE Render(Head(pieces)) \o RenderAll(Tail(pieces))

\* Every sequence of at most n pieces.
RECURSIVE PieceSeqs(_)
PieceSeqs(n) ==
    IF n = 0 THEN {<<>>}
    ELSE PieceSeqs(n - 1)
         \cup {Append(q, piece) :
                  q \in {r \in PieceSeqs(n - 1) : Len(r) = n - 1},
                  piece \in Pieces}

\* The JSON values a configuration holds a string in: the string alone, an
\* array with a number beside it, a connection object (whose key is no
\* value), a connections object with an array inside; and a value with no
\* string in it.
Shapes == {"string", "array", "object", "nested", "number"}

Shaped(shape, text) ==
    LET str == [type |-> "string", value |-> text]
        num == [type |-> "number", value |-> 5432]
        yes == [type |-> "boolean", value |-> TRUE]
        key == <<"$", "{", "A", "}">>
    IN  IF shape = "string" THEN str
        ELSE IF shape = "array"
        THEN [type |-> "array", value |-> <<str, num>>]
        ELSE IF shape = "object"
        THEN [type |-> "object",
              value |-> <<[key |-> key, value |-> str],
                          [key |-> <<"p">>, value |-> num],
                          [key |-> <<"e">>, value |-> yes]>>]
        ELSE IF shape = "nested"
        THEN [type |-> "object",
              value |-> <<[key |-> <<"c">>,
                           value |-> [type |-> "array",
                                      value |-> <<num, str>>]]>>]
        ELSE num

EnvNames == {<<"A">>, <<"B">>}

EnvInit ==
    /\ ServerInit
    /\ sql = <<>>
    /\ classified = FALSE
    /\ verdict = FALSE
    /\ input \in [pieces : PieceSeqs(MaxPieces),
                   shape : Shapes,
                   env : [EnvNames -> {<<>>, <<<<>>>>, <<<<"v">>>>}]]
    /\ output = <<>>

ResolveEnv ==
    /\ output = <<>>
    /\ output' = <<resolveEnvVars(Shaped(input.shape,
                                         RenderAll(input.pieces)))>>
    /\ UNCHANGED <<input, classifierVars, serverVars>>

EnvNext == ResolveEnv

EnvSpec == EnvInit /\ [][EnvNext]_vars

----------------------------------------------------------------------------
(* The classifier run: one text, classified once *)

\* The pieces inputs are made of: every character of the alphabet, and the
\* two-character openers and closers, two dollar tags and a semicolon with a
\* statement after it as single pieces, so that a body with a semicolon in it
\* and a second statement after it fits in MaxLexemes pieces.
Lexemes ==
    { <<"-">>, <<"/">>, <<"*">>, <<"'">>, <<"\"">>, <<"$">>, <<";">>,
      <<"a">>, <<" ">>, <<"\n">>,
      <<"-", "-">>, <<"/", "*">>, <<"*", "/">>, <<"$", "$">>,
      <<"$", "a", "$">>, <<";", "a">> }

\* The pieces of f, in order, as one text.
RECURSIVE Concat(_, _)
Concat(f, n) == IF n = 0 THEN <<>> ELSE Concat(f, n - 1) \o f[n]

ClassifierInit ==
    /\ \E f \in [1..MaxLexemes -> Lexemes \cup {<<>>}] :
           sql = Concat(f, MaxLexemes)
    /\ classified = FALSE
    /\ verdict = FALSE
    /\ input = <<>>
    /\ output = <<>>
    /\ ServerInit

Classify ==
    /\ ~classified
    /\ classified' = TRUE
    /\ verdict' = isSingleStatement(sql)
    /\ UNCHANGED sql
    /\ UNCHANGED serverVars
    /\ UNCHANGED functionVars

ClassifierNext == Classify

ClassifierSpec == ClassifierInit /\ [][ClassifierNext]_vars

----------------------------------------------------------------------------
(* Lexical contexts, read one character at a time                          *)
(*                                                                         *)
(* The claims about the classifier speak of semicolons "outside" line      *)
(* comments, block comments, single-quoted literals, double-quoted         *)
(* identifiers and $tag$ bodies.  Contexts tells, for a text, which        *)
(* positions lie outside all of them, and in which context the text ends.  *)
(* It walks the text character by character with a mode, and is written    *)
(* from the description of the contexts, not from the scan above.          *)
(***************************************************************************)

\* Is there a $tag$ delimiter starting at position i?
IsDelimiterAt(s, i) ==
    /\ i < Len(s) /\ At(s, i) = "$"
    /\ \E k \in (i + 1)..(Len(s) - 1) :
          /\ At(s, k) = "$"
          /\ \A m \in (i + 1)..(k - 1) : At(s, m) \in TagChars

\* The delimiter starting at position i.
DelimiterAt(s, i) ==
    LET k == CHOOSE k \in (i + 1)..(Len(s) - 1) :
                 /\ At(s, k) = "$"
                 /\ \A m \in (i + 1)..(k - 1) : At(s, m) \in TagChars
    IN  Substring(s, i, k + 1)

RECURSIVE Walk(_, _, _, _, _, _)
Walk(s, i, mode, tag, opener, outside) ==
    IF i >= Len(s)
    THEN [outside |-> outside, mode |-> mode, opener |-> opener]
    ELSE IF mode = "code"
    THEN IF MatchesAt(s, <<"-", "-">>, i)
         THEN Walk(s, i + 2, "line", <<>>, i, outside)
         ELSE IF MatchesAt(s, <<"/", "*">>, i)
         THEN Walk(s, i + 2, "block", <<>>, i, outside)
         ELSE IF At(s, i) = "'"
         THEN Walk(s, i + 1, "single", <<>>, i, outside)
         ELSE IF At(s, i) = "\""
         THEN Walk(s, i + 1, "double", <<>>, i, outside)
         ELSE IF IsDelimiterAt(s, i)
         THEN Walk(s, i + Len(DelimiterAt(s, i)), "dollar",
                   DelimiterAt(s, i), i, outside)
         ELSE Walk(s, i + 1, "code", <<>>, -1, outside \cup {i})
    ELSE IF mode = "line"
    THEN IF At(s, i) = "\n"
         THEN Walk(s, i + 1, "code", <<>>, -1, outside)
         ELSE Walk(s, i + 1, "line", tag, opener, outside)
    ELSE IF mode = "block"
    THEN IF MatchesAt(s, <<"*", "/">>, i)
         THEN Walk(s, i + 2, "code", <<>>, -1, outside)
         ELSE Walk(s, i + 1, "block", tag, opener, outside)
    ELSE IF mode = "single"
    THEN IF MatchesAt(s, <<"'", "'">>, i)
         THEN Walk(s, i + 2, "single", tag, opener, outside)
         ELSE IF At(s, i) = "'"
         THEN Walk(s, i + 1, "code", <<>>, -1, outside)
         ELSE Walk(s, i + 1, "single", tag, opener, outside)
    ELSE IF mode = "double"
    THEN IF At(s, i) = "\""
         THEN Walk(s, i + 1, "code", <<>>, -1, outside)
         ELSE Walk(s, i + 1, "double", tag, opener, outside)
    ELSE \* mode = "dollar"
         IF MatchesAt(s, tag, i)
         THEN Walk(s, i + Len(tag), "code", <<>>, -1, outside)
         ELSE Walk(s, i + 1, "dollar", tag, opener, outside)

Contexts(s) == Walk(s, 0, "code", <<>>, -1, {})

\* The positions of the semicolons outside every context.
TopLevelSemicolons(s) == {p \in Contexts(s).outside : At(s, p) = ";"}

\* All semicolons of the text.
Semicolons(s) == {p \in 0..(Len(s) - 1) : At(s, p) = ";"}

\* Is some character after position p not whitespace?
ContentAfter(s, p) ==
    \E q \in (p + 1)..(Len(s) - 1) : At(s, q) \notin Whitespace

\* The first semicolon outside every context (there is one).
FirstTopLevelSemicolon(s) ==
    CHOOSE p \in TopLevelSemicolons(s) :
        \A q \in TopLevelSemicolons(s) : p <= q

----------------------------------------------------------------------------
(* Claims about the classifier, checked under ClassifierSpec *)

\* C2: a text with a semicolon outside comments, literals, identifiers and
\* $tag$ bodies that has a non-whitespace character anywhere after it is
\* classified multi-statement (isSingleStatement returns false).
C2_StackedStatementRejected ==
    classified =>
        ((\E p \in TopLevelSemicolons(sql) : ContentAfter(sql, p))
            => verdict = FALSE)

\* C2 happens: a text is rejected for a second statement that follows a
\* closed context with a semicolon inside it.
C2_Witness ==
    /\ classified
    /\ verdict = FALSE
    /\ \E p \in TopLevelSemicolons(sql) :
          /\ ContentAfter(sql, p)
          /\ \E q \in Semicolons(sql) \ TopLevelSemicolons(sql) : q < p

\* C3: a text with no semicolon outside comments, literals, identifiers and
\* $tag$ bodies is classified single-statement, however many semicolons lie
\* inside those contexts.
C3_NoTopLevelSemicolonAccepted ==
    classified =>
        (TopLevelSemicolons(sql) = {} => verdict = TRUE)

\* C3 happens: an accepted text whose only semicolon lies inside a context and
\* has a non-whitespace character after it.
C3_Witness ==
    /\ classified
    /\ verdict = TRUE
    /\ TopLevelSemicolons(sql) = {}
    /\ \E q \in Semicolons(sql) : ContentAfter(sql, q)

C5_UnterminatedBodyAccepted ==
    classified =>
        LET c == Contexts(sql)
        IN  (/\ c.mode \in {"block", "dollar"}
             /\ \A p \in TopLevelSemicolons(sql) : p > c.opener)
              => verdict = TRUE

\* C5 happens: an accepted text that ends in an unclosed $tag$ body holding a
\* semicolon with a statement after it.
C5_Witness ==
    /\ classified
    /\ verdict = TRUE
    /\ Contexts(sql).mode = "dollar"
    /\ \E q \in Semicolons(sql) :
          q > Contexts(sql).opener /\ ContentAfter(sql, q)

\* C5 happens for comments too: an unclosed block comment holding the same.
C5_WitnessBlock ==
    /\ classified
    /\ verdict = TRUE
    /\ Contexts(sql).mode = "block"
    /\ \E q \in Semicolons(sql) :
          q > Contexts(sql).opener /\ ContentAfter(sql, q)

----------------------------------------------------------------------------
(* Claims about the executor, checked under Spec *)

BeginCommands == {"BEGIN", "BEGIN TRANSACTION READ ONLY"}

\* The calls that have got a client from their pool and not yet given it back.
Holding(p) ==
    {c \in Slots : /\ calls[c].pool = p
                   /\ calls[c].pc \in {"begin", "stmt", "commit", "rollback"}}

\* C1: a pg_query or pg_explain call whose text isSingleStatement refuses
\* returns the tool's multi-statement error and nothing else has happened in
\* it: loadConfig was not entered, getOrCreatePool was not called, no
\* pool.connect() was made, no command was sent.
C1_GateBeforeAnyResource ==
    \A c \in Slots :
        (calls[c].pc # "idle" /\ ~isSingleStatement(calls[c].query.text))
        => /\ calls[c].pc = "done"
           /\ calls[c].result = <<MultiStatementError(calls[c].tool)>>
           /\ calls[c].result[1].isError
           /\ calls[c].loads = 0
           /\ calls[c].lookups = 0
           /\ calls[c].borrows = 0
           /\ calls[c].pool = 0
           /\ calls[c].cmds = <<>>

\* A multi-statement call has returned while another call holds a client of
\* a pool the registry has.
C1_Witness ==
    \E c \in Slots, d \in Slots :
        /\ calls[c].pc = "done"
        /\ ~isSingleStatement(calls[c].query.text)
        /\ calls[d].pc = "stmt"
        /\ \E l \in Labels : pools[l] # <<>>

C6_WitnessCommitted ==
    \E c \in Slots :
        /\ calls[c].pc = "done"
        /\ calls[c].tool = "pg_query"
        /\ calls[c].effect = "committed"
        /\ calls[c].query.write
        /\ ~calls[c].conn[1].readOnly
        /\ calls[c].result = <<SuccessResult>>

\* C7: whichever tool sends it, a caller's statement that has been sent on a
\* client of a pool built for a descriptor with readOnly true was sent in a
\* transaction begun with BEGIN TRANSACTION READ ONLY.
C7_ReadOnlyTargetAlwaysReadOnly ==
    \A c \in Slots :
        LET rec == calls[c]
        IN  (Len(rec.cmds) >= 2 /\ rec.pconn[1].readOnly)
            => rec.cmds[1].cmd = "BEGIN TRANSACTION READ ONLY"

\* pg_explain has executed a write on a readOnly target.
C7_ExplainWritesOnReadOnly ==
    \E c \in Slots :
        /\ calls[c].tool = "pg_explain"
        /\ calls[c].pconn # <<>>
        /\ calls[c].pconn[1].readOnly
        /\ calls[c].query.write
        /\ Len(calls[c].cmds) >= 3
        /\ calls[c].cmds[2] = [cmd |-> "EXPLAIN", outcome |-> "ok"]

\* C8: the commands of a pg_query call are BEGIN first, the statement second
\* and only after BEGIN succeeded, then COMMIT if the statement succeeded
\* and ROLLBACK if it failed; a further ROLLBACK follows only a failed
\* COMMIT.  Each command is sent after the one before it has settled.
C8_CommandOrder ==
    \A c \in Slots :
        LET cmds == calls[c].cmds
            n == Len(cmds)
        IN  calls[c].tool = "pg_query"
            => /\ n <= 4
               /\ \A i \in 1..n :
                     /\ cmds[i].cmd \in BeginCommands <=> i = 1
                     /\ cmds[i].cmd = "QUERY" <=> i = 2
                     /\ i < n => cmds[i].outcome # "pending"
               /\ n >= 2 => cmds[1].outcome = "ok"
               /\ n = 2 => cmds[2].outcome = "pending"
               /\ n >= 3 => /\ cmds[2].outcome = "ok"
                                => cmds[3].cmd = "COMMIT"
                            /\ cmds[2].outcome = "failed"
                                => cmds[3].cmd = "ROLLBACK" /\ n = 3
               /\ n = 4 => /\ cmds[3] = [cmd |-> "COMMIT",
                                         outcome |-> "failed"]
                           /\ cmds[4].cmd = "ROLLBACK"
               /\ (calls[c].pc = "done" /\ n = 3) => cmds[3].outcome # "failed"
                                                     \/ cmds[3].cmd = "ROLLBACK"

\* A pg_query statement has failed and ROLLBACK has been sent after it.
C8_Witness ==
    \E c \in Slots :
        /\ calls[c].tool = "pg_query"
        /\ Len(calls[c].cmds) = 3
        /\ calls[c].cmds[2] = [cmd |-> "QUERY", outcome |-> "failed"]
        /\ calls[c].cmds[3].cmd = "ROLLBACK"

\* The failure a pg_query call's try block was left with, if any.
OriginalFailure(rec) ==
    IF Len(rec.cmds) >= 2 /\ rec.cmds[2].outcome = "failed"
    THEN <<"statement failed">>
    ELSE IF /\ Len(rec.cmds) >= 3
            /\ rec.cmds[3] = [cmd |-> "COMMIT", outcome |-> "failed"]
    THEN <<"commit failed">>
    ELSE <<>>

\* C9: a finished pg_query call whose statement or COMMIT failed returns
\* errorResult of that failure, whether the ROLLBACK sent after it succeeded
\* or failed.
C9_OriginalErrorReturned ==
    \A c \in Slots :
        LET rec == calls[c]
        IN  (/\ rec.tool = "pg_query"
             /\ rec.pc = "done"
             /\ OriginalFailure(rec) # <<>>)
            => /\ rec.result = <<errorResult(OriginalFailure(rec))>>
               /\ rec.result[1].isError

\* A COMMIT has failed, the ROLLBACK after it has failed too, and the call
\* has returned.
C9_Witness ==
    \E c \in Slots :
        /\ calls[c].tool = "pg_query"
        /\ calls[c].pc = "done"
        /\ Len(calls[c].cmds) = 4
        /\ calls[c].cmds[3] = [cmd |-> "COMMIT", outcome |-> "failed"]
        /\ calls[c].cmds[4] = [cmd |-> "ROLLBACK", outcome |-> "failed"]

\* C10: a call releases the client it borrowed once, when fn is left, and a
\* call that got no client releases none; so the clients checked out of a
\* pool are those of the calls still inside fn, and none once every call has
\* finished.
C10_ReleasedExactlyOnce ==
    /\ \A c \in Slots :
          LET rec == calls[c]
          IN  /\ rec.pc = "done"
                  => rec.releases = IF rec.cmds # <<>> THEN 1 ELSE 0
              /\ rec.pc \notin {"done", "idle"} => rec.releases = 0
    /\ \A p \in PoolIds : poolObjs[p].out = Cardinality(Holding(p))

\* A call has left fn with an error after its ROLLBACK failed and has given
\* its client back while the other call still holds one.
C10_Witness ==
    \E c \in Slots, d \in Slots :
        /\ calls[c].pc = "done"
        /\ calls[c].releases = 1
        /\ calls[c].thrown # <<>>
        /\ calls[c].cmds[Len(calls[c].cmds)]
              = [cmd |-> "ROLLBACK", outcome |-> "failed"]
        /\ poolObjs[calls[c].pool].out = 0
        /\ calls[d].pc = "stmt"
        /\ poolObjs[calls[d].pool].out = 1

\* C11: pg_explain sends no COMMIT.  After its BEGIN has succeeded it sends
\* the EXPLAIN, and when that has settled, either way, ROLLBACK; the client is
\* released only after the ROLLBACK has settled.
C11_ExplainAlwaysRollsBack ==
    \A c \in Slots :
        LET rec == calls[c]
            cmds == rec.cmds
            n == Len(cmds)
        IN  rec.tool = "pg_explain"
            => /\ \A i \in 1..n : cmds[i].cmd # "COMMIT"
               /\ n <= 3
               /\ n >= 2 => cmds[1].outcome = "ok" /\ cmds[2].cmd = "EXPLAIN"
               /\ n = 2 => cmds[2].outcome = "pending"
               /\ n = 3 => /\ cmds[2].outcome \in {"ok", "failed"}
                           /\ cmds[3].cmd = "ROLLBACK"
               /\ (rec.releases > 0 /\ cmds[1].outcome = "ok")
                    => /\ n = 3
                       /\ cmds[3].outcome \in {"ok", "failed"}

\* An EXPLAIN has succeeded, the ROLLBACK after it has been sent and has
\* settled, and the client has been released.
C11_Witness ==
    \E c \in Slots :
        /\ calls[c].tool = "pg_explain"
        /\ calls[c].pc = "done"
        /\ calls[c].releases = 1
        /\ Len(calls[c].cmds) = 3
        /\ calls[c].cmds[2] = [cmd |-> "EXPLAIN", outcome |-> "ok"]
        /\ calls[c].cmds[3] = [cmd |-> "ROLLBACK", outcome |-> "ok"]

----------------------------------------------------------------------------
(* Claims about the pool registry *)

\* The pools constructed for a label that are not closed yet: still the
\* registry's, or ended with clients left.
LivePools(l) ==
    {p \in PoolIds : /\ poolObjs[p].made
                     /\ poolObjs[p].label = l
                     /\ ~Ended(p)}

\* C12: a label has at most one pool that is not closed: a pool that
\* getOrCreatePool has replaced is drained and closed by the time its
\* replacement is the registry entry.
C12_OneLivePoolPerLabel ==
    \A l \in Labels : Cardinality(LivePools(l)) <= 1

\* A label's replaced pool still has a client checked out while the
\* replacement is the registry entry.
C12_ReplacedPoolStillOpen ==
    \E l \in Labels, p \in PoolIds :
        /\ pools[l] # <<>>
        /\ pools[l][1].pool # p
        /\ poolObjs[p].label = l
        /\ poolObjs[p].ending
        /\ poolObjs[p].out > 0

\* The call is waiting for pool.connect() to settle.
Borrowing(rec) == rec.pc \in {"connecting", "queued"}

\* C13: once end() has been called on a pool, no call starts a
\* pool.connect() on it and no pool.connect() pending on it resolves with a
\* client.
C13_NoBorrowAfterEnd ==
    [][\A c \in Slots :
          /\ (~Borrowing(calls[c]) /\ Borrowing(calls'[c]))
                => ~poolObjs'[calls'[c].pool].ending
          /\ (Borrowing(calls[c]) /\ calls'[c].pc = "begin")
                => ~poolObjs[calls[c].pool].ending]_vars

\* The pool was constructed from a descriptor with conn's host, port, user,
\* password, database, url, ssl and poolSize.
BuiltFrom(p, conn) ==
    /\ poolObjs[p].made
    /\ poolObjs[p].conn[1].host = conn.host
    /\ poolObjs[p].conn[1].port = conn.port
    /\ poolObjs[p].conn[1].user = conn.user
    /\ poolObjs[p].conn[1].password = conn.password
    /\ poolObjs[p].conn[1].database = conn.database
    /\ poolObjs[p].conn[1].url = conn.url
    /\ poolObjs[p].conn[1].ssl = conn.ssl
    /\ poolObjs[p].conn[1].poolSize = conn.poolSize

\* C14: when withPool resolves a label whose registry pool was built from a
\* descriptor with the same fingerprint as the one just looked up, the call
\* gets that pool, and the registry and every pool object are as before: none
\* constructed, none ended.
C14_MatchingFingerprintReusesPool ==
    [][\A c \in Slots :
          (/\ ~Borrowing(calls[c])
           /\ Borrowing(calls'[c])
           /\ pools[calls'[c].database] # <<>>
           /\ BuiltFrom(pools[calls'[c].database][1].pool,
                        calls'[c].pconn[1]))
          => /\ calls'[c].pool = pools[calls'[c].database][1].pool
             /\ pools' = pools
             /\ poolObjs' = poolObjs]_vars

\* The file has been written again with the same content and read again, and
\* a second call is on the one pool that was ever constructed.
C14_Witness ==
    \E c \in Slots :
        /\ Borrowing(calls[c])
        /\ started = 2
        /\ file.mtime = 2
        /\ configCache # <<>>
        /\ configCache[1].mtime = 2
        /\ calls[c].pool = 1
        /\ Cardinality({p \in PoolIds : poolObjs[p].made}) = 1
        /\ ~poolObjs[1].ending

\* The pools constructed so far, among objs.
Made(objs) == {p \in PoolIds : objs[p].made}

\* The call has resolved its pool and not returned yet.
InFlightOn(rec, p) ==
    /\ rec.pool = p
    /\ rec.pc \in {"connecting", "queued", "begin", "stmt", "commit",
                   "rollback"}

\* C15: a call that resolves a label gets the pool that is the registry
\* entry after its getOrCreatePool, which constructs at most one pool; and
\* when another call in flight has already got the registry's pool for the
\* same fingerprint, the call gets that same pool and none is constructed:
\* callers racing for one new fingerprint construct one pool and share it.
C15_OnePoolForRacingCallers ==
    [][\A c \in Slots :
          (~Borrowing(calls[c]) /\ Borrowing(calls'[c]))
          => LET l == calls'[c].database
                 conn == calls'[c].pconn[1]
             IN  /\ pools'[l] # <<>>
                 /\ calls'[c].pool = pools'[l][1].pool
                 /\ Cardinality(Made(poolObjs'))
                       <= Cardinality(Made(poolObjs)) + 1
                 /\ \A d \in Slots \ {c} :
                       (/\ pools[l] # <<>>
                        /\ InFlightOn(calls[d], pools[l][1].pool)
                        /\ BuiltFrom(pools[l][1].pool, conn))
                       => /\ calls'[c].pool = calls[d].pool
                          /\ Made(poolObjs') = Made(poolObjs)]_vars

\* staging's fingerprint has changed; both calls have resolved it and are in
\* flight on the one pool constructed for it, and the pool it replaced is
\* ended.
C15_Witness ==
    /\ file.content = SourceB
    /\ \A c \in Slots : /\ calls[c].database = "staging"
                        /\ InFlightOn(calls[c], 2)
    /\ pools["staging"] # <<>>
    /\ pools["staging"][1].pool = 2
    /\ BuiltFrom(2, SourceB[1])
    /\ poolObjs[1].ending
    /\ Made(poolObjs) = {1, 2}

\* C16: the pool a call has got from getOrCreatePool(conn) was constructed
\* for conn's label from a descriptor with conn's host, port, user, password,
\* database, url, ssl and poolSize; so two calls whose descriptors carry one
\* label and differ in one of these are on different pools.
C16_PoolMatchesFingerprint ==
    /\ \A c \in Slots :
          calls[c].pool # 0
          => /\ poolObjs[calls[c].pool].label = calls[c].pconn[1].label
             /\ BuiltFrom(calls[c].pool, calls[c].pconn[1])
    /\ \A c \in Slots, d \in Slots :
          (/\ calls[c].pool # 0
           /\ calls[d].pool # 0
           /\ calls[c].pconn[1].label = calls[d].pconn[1].label
           /\ calls[c].pconn[1].host # calls[d].pconn[1].host)
          => calls[c].pool # calls[d].pool

\* Two calls in flight carry staging's descriptor before and after its host
\* changed, each on the pool constructed for its own.
C16_Witness ==
    \E c \in Slots, d \in Slots :
        /\ InFlightOn(calls[c], 1)
        /\ InFlightOn(calls[d], 2)
        /\ calls[c].pconn[1].label = "staging"
        /\ calls[d].pconn[1].label = "staging"
        /\ calls[c].pconn[1].host = "db1"
        /\ calls[d].pconn[1].host = "db3"

----------------------------------------------------------------------------
(* Claims about shutdown, checked under ShutdownSpec *)

\* C17: an invocation of shutdown leaves the registry empty with end() called
\* on every pool it held; no pool has end() called on it twice, however many
\* invocations there are; and the process exits only when every pool an
\* invocation has ended is drained, so that a later invocation does not cut
\* short the draining an earlier one began.
C17_ShutdownIdempotent ==
    [][/\ Len(shutdowns') > Len(shutdowns)
            => /\ \A l \in Labels : pools'[l] = <<>>
               /\ \A l \in Labels :
                     pools[l] # <<>> => poolObjs'[pools[l][1].pool].ending
       /\ \A p \in PoolIds : poolObjs'[p].ends <= 1
       /\ exited'
            => \A k \in 1..Len(shutdowns') :
                  \A p \in shutdowns'[k] : poolObjs'[p].out = 0]_vars

\* The process has exited on the second signal while a pool the first one
\* ended still has a client checked out.
C17_SecondSignalExitsEarly ==
    /\ exited
    /\ Len(shutdowns) = 2
    /\ shutdowns[2] = {}
    /\ \E p \in shutdowns[1] : poolObjs[p].out > 0

----------------------------------------------------------------------------
(* Claims about the configuration loader, checked under LoaderSpec *)

\* The list a call that has just arrived was given by loadConfig is `list`:
\* the listing renders it, a lookup found its descriptor in it or failed
\* naming its labels.
ReturnedToArrival(rec, list) ==
    IF rec.tool = "pg_list_databases"
    THEN rec.pc = "done" /\ rec.result = <<ListResult(list)>>
    ELSE IF FindConnection(list, rec.database) = <<>>
    THEN rec.pc = "done" /\ rec.thrown = NotFound(rec.database, list)
    ELSE /\ rec.pconn = FindConnection(list, rec.database)
         /\ rec.pc \in {"connecting", "queued"}

UniqueLabels(list) ==
    \A i, j \in 1..Len(list) : list[i].label = list[j].label => i = j

\* Every descriptor of the list is the first one with its label in src.
FirstOccurrences(list, src) ==
    \A i \in 1..Len(list) :
        \E k \in 1..Len(src) :
            /\ src[k] = list[i]
            /\ \A j \in 1..(k - 1) : src[j].label # list[i].label

\* C19: the list loadConfig builds from a file content holds each label at
\* most once, and each descriptor in it is the first one with its label in
\* that content; so is every snapshot the cache publishes.
C19_LabelsUniqueFirstKept ==
    [][/\ \A c \in Slots :
             (calls[c].pc = "lc_read" /\ calls'[c].pc = "lc_stat2")
             => /\ UniqueLabels(calls'[c].parsed)
                /\ FirstOccurrences(calls'[c].parsed, file.content)
       /\ configCache' # <<>> => UniqueLabels(configCache'[1].connections)]_vars

\* The file holds staging twice, and the snapshot published from it holds
\* the first of the two.
C19_Witness ==
    /\ file.content = SourceC
    /\ configCache # <<>>
    /\ configCache[1].mtime = file.mtime
    /\ \E i \in 1..Len(configCache[1].connections) :
          configCache[1].connections[i] = SourceC[1]
    /\ \A i \in 1..Len(configCache[1].connections) :
          configCache[1].connections[i] # SourceC[3]

\* The labels --label hides.
Hidden == Labels \ {LABEL_FILTER}

\* Every descriptor of the list carries the filter's label.
OnlyFilterLabel(list) ==
    \A i \in 1..Len(list) : list[i].label = LABEL_FILTER

\* The payload is getConnection's not-found error for the label.
IsNotFoundError(result, label) ==
    /\ result.isError
    /\ Len(result.text) >= 5
    /\ SubSeq(result.text, 1, 4)
         = <<"Error: ", "Database \"", label, "\" not found. Available: ">>

\* What a not-found error lists as available.
AvailableNamed(result) == {result.text[i] : i \in 5..Len(result.text)}

\* With a filter set, the snapshots hold the filter's label only, and a
\* finished pg_list_databases call lists at most that one target.
FilteredSnapshots ==
    /\ configCache # <<>> => OnlyFilterLabel(configCache[1].connections)
    /\ \A c \in Slots :
          /\ OnlyFilterLabel(calls[c].parsed)
          /\ (calls[c].tool = "pg_list_databases" /\ calls[c].pc = "done")
             => /\ Len(calls[c].result[1].lines) <= 1
                /\ OnlyFilterLabel(calls[c].result[1].lines)
                /\ \A i \in 1..Len(calls[c].result[1].text) :
                      calls[c].result[1].text[i] \notin Hidden

\* A call naming a label the filter hides gets no further than loadConfig.
StopsAtLookup(rec) ==
    rec.pc \in {"lc_stat", "lc_read", "lc_stat2", "done"}

\* The not-found error for the call's label, its available list free of
\* hidden labels.
FailsNotFound(rec) ==
    /\ IsNotFoundError(rec.result[1], rec.database)
    /\ AvailableNamed(rec.result[1]) \cap Hidden = {}

\* C20 as stated: with a filter set, the snapshots and the listing hold the
\* filter's label only, and every finished call naming another label has
\* failed with the not-found error, which lists no hidden label.
C20_OtherLabelAlwaysNotFound ==
    LABEL_FILTER # ""
    => /\ FilteredSnapshots
       /\ \A c \in Slots :
             (calls[c].tool \in Tools /\ calls[c].database \in Hidden)
             => /\ StopsAtLookup(calls[c])
                /\ calls[c].pc = "done" => FailsNotFound(calls[c])

\* C20, amended: with a filter set, the snapshots and the listing hold the
\* filter's label only, and every finished call naming another label has
\* failed without reaching a pool: with the multi-statement error when its
\* text is not a single statement, else with the not-found error, which lists
\* no hidden label.
C20_HiddenLabelsUnreachable ==
    LABEL_FILTER # ""
    => /\ FilteredSnapshots
       /\ \A c \in Slots :
             (calls[c].tool \in Tools /\ calls[c].database \in Hidden)
             => /\ StopsAtLookup(calls[c])
                /\ calls[c].pool = 0
                /\ calls[c].pc = "done"
                   => IF isSingleStatement(calls[c].query.text)
                      THEN FailsNotFound(calls[c])
                      ELSE calls[c].result
                             = <<MultiStatementError(calls[c].tool)>>

\* The server runs with --label prod, the file holds staging and prod, and a
\* pg_query call naming staging has failed with the not-found error, which
\* lists prod alone.
C20_Witness ==
    /\ LABEL_FILTER = "prod"
    /\ file.content = SourceA
    /\ \E c \in Slots :
          /\ calls[c].tool = "pg_query"
          /\ calls[c].database = "staging"
          /\ calls[c].pc = "done"
          /\ IsNotFoundError(calls[c].result[1], "staging")
          /\ AvailableNamed(calls[c].result[1]) = {"prod"}

----------------------------------------------------------------------------
(* Claims about reloading, checked under ReloadSpec *)

\* C21: when readFile settles for a call and the file is missing or does not
\* parse or validate, the call is given the empty list and the cache
\* (connections, mtime, the age of loadedAt) is as it was; a content is
\* parsed into a list only when it is valid, and the cache changes only by
\* publishing such a list.
C21_FailedLoadLeavesCache ==
    [][/\ \A c \in Slots :
             (calls[c].pc = "lc_read" /\ calls'[c].pc # "lc_read")
             => IF Loadable
                THEN /\ calls'[c].pc = "lc_stat2"
                     /\ calls'[c].parsed = ParseConfig(file.content)
                ELSE /\ configCache' = configCache
                     /\ cacheAge' = cacheAge
                     /\ ReturnedToArrival(calls'[c], <<>>)
       /\ configCache' # configCache
            => \E c \in Slots :
                  /\ calls[c].pc = "lc_stat2"
                  /\ configCache'[1].connections = calls[c].parsed]_vars

\* A snapshot is cached, the file has since become unreadable or invalid, and
\* a pg_query call that went to the file has just failed with an empty list
\* of available labels while the snapshot is still cached.
C21_Witness ==
    \E c \in Slots :
        /\ calls[c].tool = "pg_query"
        /\ calls[c].pc = "done"
        /\ calls[c].thrown = NotFound(calls[c].database, <<>>)
        /\ ~Loadable
        /\ configCache # <<>>
        /\ configCache[1].connections # <<>>
        /\ cacheAge = CONFIG_CACHE_TTL

\* The call's payload is the degraded one: no databases listed, or the
\* not-found error for the label.
Degraded(rec) ==
    IF rec.tool = "pg_list_databases"
    THEN rec.result = <<ListResult(<<>>)>>
    ELSE IsNotFoundError(rec.result[1], rec.database)

\* C22: while the file is missing or invalid, a call that arrives, or whose
\* stat or read of the file settles, gets no pool: it goes on to the file or
\* finishes degraded, pg_list_databases with no databases and pg_query with
\* the not-found error.
C22_DegradesWhileInvalid ==
    [][\A c \in Slots :
          (/\ calls[c].pc \in {"idle", "lc_stat", "lc_read"}
           /\ calls'[c] # calls[c]
           /\ ~Loadable)
          => /\ calls'[c].pc \in {"lc_stat", "lc_read", "done"}
             /\ calls'[c].pc = "done" => Degraded(calls'[c])]_vars

\* The file is missing or invalid, and a pg_list_databases call has just
\* been answered with the databases of a snapshot loaded 2.5 s ago.
C22_ServedWhileInvalid ==
    \E c \in Slots :
        /\ calls[c].tool = "pg_list_databases"
        /\ calls[c].pc = "done"
        /\ calls[c].result[1].lines # <<>>
        /\ ~Loadable
        /\ cacheAge = 2500

\* C23: a call that arrives while the file is valid is answered from what the
\* file holds at that moment: a pg_query call naming a label the file has
\* enabled does not fail with the not-found error on arrival, and a
\* pg_list_databases call answered on arrival lists the file's databases.
C23_AddedDatabaseAvailableAtOnce ==
    [][\A c \in Slots :
          (/\ calls[c].pc = "idle"
           /\ calls'[c].pc = "done"
           /\ Loadable)
          => IF calls'[c].tool = "pg_list_databases"
             THEN calls'[c].result = <<ListResult(ParseConfig(file.content))>>
             ELSE FindConnection(ParseConfig(file.content),
                                 calls'[c].database) # <<>>
                  => ~IsNotFoundError(calls'[c].result[1],
                                      calls'[c].database)]_vars

\* The file has prod enabled, and a pg_query call naming prod has just failed
\* with the not-found error, answered from a snapshot loaded 2.5 s ago.
C23_AddedDatabaseNotFound ==
    \E c \in Slots :
        /\ calls[c].tool = "pg_query"
        /\ calls[c].database = "prod"
        /\ calls[c].pc = "done"
        /\ IsNotFoundError(calls[c].result[1], "prod")
        /\ file.exists
        /\ file.content = SourceA
        /\ cacheAge = 2500

----------------------------------------------------------------------------
(* Claims about the lookup of a label, checked under LoaderSpec *)

\* The snapshot loadConfig hands the call whose wait ends in this step: the
\* cached one on arrival and after an unchanged stat, the empty list after a
\* failed read, the list just parsed after the second stat.
CurrentSnapshot(c) ==
    IF calls[c].pc = "lc_read" THEN <<>>
    ELSE IF calls[c].pc = "lc_stat2" THEN calls[c].parsed
    ELSE IF configCache = <<>> THEN <<>>
    ELSE configCache[1].connections

\* The call's lookup ends in this step: it arrives and does not go to the
\* file, or its last file operation settles.
LookupEnds(c) ==
    /\ calls[c].pc \in {"idle", "lc_stat", "lc_read", "lc_stat2"}
    /\ calls'[c].pc \notin {"idle", "lc_stat", "lc_read", "lc_stat2"}
    /\ calls'[c].tool \in Tools

\* The call has failed with the not-found error listing exactly the labels
\* of the list, no pool was constructed and no connection borrowed for it.
NotFoundListing(c, list) ==
    /\ calls'[c].pc = "done"
    /\ IsNotFoundError(calls'[c].result[1], calls'[c].database)
    /\ AvailableNamed(calls'[c].result[1]) \ {", "}
         = IF list = <<>> THEN {"(none)"}
           ELSE {list[i].label : i \in 1..Len(list)}
    /\ calls'[c].pool = 0
    /\ calls'[c].borrows = 0
    /\ pools' = pools
    /\ poolObjs' = poolObjs

\* C24 as stated: every call of a tool that takes a database, naming a label
\* the current snapshot has no descriptor for, fails with the not-found error
\* whose message lists exactly the snapshot's labels, "(none)" for none, and
\* constructs no pool and borrows no connection.
C24_MissingLabelAlwaysNotFound ==
    [][\A c \in Slots :
          (/\ LookupEnds(c)
           /\ FindConnection(CurrentSnapshot(c), calls'[c].database) = <<>>)
          => NotFoundListing(c, CurrentSnapshot(c))]_vars

\* C24, amended: every call of a tool that takes a database, whose text is a
\* single statement and which names a label the current snapshot has no
\* descriptor for, fails with the not-found error whose message lists
\* exactly the snapshot's labels, "(none)" for none, and constructs no pool
\* and borrows no connection; a call whose text is not a single statement
\* fails with the multi-statement error before any lookup.
C24_MissingLabelNotFound ==
    [][\A c \in Slots :
          (/\ LookupEnds(c)
           /\ FindConnection(CurrentSnapshot(c), calls'[c].database) = <<>>)
          => IF isSingleStatement(calls'[c].query.text)
             THEN NotFoundListing(c, CurrentSnapshot(c))
             ELSE /\ calls'[c].result
                       = <<MultiStatementError(calls'[c].tool)>>
                  /\ calls'[c].loads = 0
                  /\ calls'[c].pool = 0]_vars

\* The snapshot holds staging alone, and a pg_explain call naming prod has
\* failed with the not-found error listing staging, with no pool
\* constructed for prod.
C24_Witness ==
    \E c \in Slots :
        /\ calls[c].tool = "pg_explain"
        /\ calls[c].database = "prod"
        /\ calls[c].pc = "done"
        /\ IsNotFoundError(calls[c].result[1], "prod")
        /\ AvailableNamed(calls[c].result[1]) = {"staging"}
        /\ calls[c].borrows = 0
        /\ pools["prod"] = <<>>

----------------------------------------------------------------------------
(* Claims about pg_query's payload, checked under PayloadSpec *)

\* C25: when a limit is given and the statement returned more rows than the
\* limit, the payload holds exactly the first limit rows and is annotated
\* truncated with totalRows the number of rows returned; otherwise the
\* payload holds all the rows and no truncation annotation.
C25_TruncatesToLimit ==
    output # <<>>
    => LET rows == input.result.rows
           limit == input.limit
           payload == output[1]
       IN  IF limit # <<>> /\ Len(rows) > limit[1]
           THEN /\ Len(payload.rows) = limit[1]
                /\ \A i \in 1..limit[1] : payload.rows[i] = rows[i]
                /\ "truncated" \in DOMAIN payload
                /\ payload.truncated
                /\ payload.totalRows = Len(rows)
           ELSE /\ "truncated" \notin DOMAIN payload
                /\ "totalRows" \notin DOMAIN payload
                /\ IF rows = <<>> THEN "rows" \notin DOMAIN payload
                   ELSE payload.rows = rows

\* Three rows came back under a limit of two, and the payload is made.
C25_Witness ==
    /\ output # <<>>
    /\ input.limit = <<2>>
    /\ Len(input.result.rows) = 3
    /\ output[1].rows = SubSeq(input.result.rows, 1, 2)

\* As many rows came back as the limit allows, and the payload is made.
C25_WitnessAtLimit ==
    /\ output # <<>>
    /\ input.limit = <<2>>
    /\ Len(input.result.rows) = 2
    /\ output[1].rows = input.result.rows

----------------------------------------------------------------------------
(* Claims about resolveEnvVars, checked under EnvSpec *)

\* What a piece stands for: a literal for itself; a placeholder for its
\* variable's value when the variable is set, else for its fallback, else
\* for the empty string.
Resolved(piece) ==
    IF piece.kind = "literal" THEN piece.text
    ELSE IF input.env[piece.name] # <<>> THEN input.env[piece.name][1]
    ELSE IF piece.fallback # <<>> THEN piece.fallback[1]
    ELSE <<>>

RECURSIVE ResolvedAll(_)
ResolvedAll(pieces) ==
    IF pieces = <<>> THEN <<>>
    ELSE Resolved(Head(pieces)) \o ResolvedAll(Tail(pieces))

C26_WitnessSetEmpty ==
    /\ output # <<>>
    /\ input.shape = "string"
    /\ input.pieces = <<Placeholder(<<"A">>, <<<<"d">>>>)>>
    /\ input.env[<<"A">>] = <<<<>>>>
    /\ output[1].value = <<>>

----------------------------------------------------------------------------
(* A further claim about the classifier, checked under ClassifierSpec *)

----------------------------------------------------------------------------
(* A claim about the pool size, checked under ReloadSpec *)

\* readFile settles for call c on a file that is a configuration with a
\* poolSize above the maximum in it.
ReadsOversizedPool(c) ==
    /\ calls[c].pc = "lc_read"
    /\ calls'[c].pc # "lc_read"
    /\ file.exists
    /\ file.content # Garbage
    /\ \E i \in 1..Len(file.content) : file.content[i].poolSize > MaxPoolSize

\* C28 as stated: a file with a poolSize above the maximum loads; the list
\* parsed from it holds every enabled descriptor of the file, the one with
\* the oversized pool too, its poolSize brought down to the maximum.
C28_OversizedPoolClamped ==
    [][\A c \in Slots :
          ReadsOversizedPool(c)
          => /\ calls'[c].pc = "lc_stat2"
             /\ \A i \in 1..Len(file.content) :
                   file.content[i].enabled
                   => \E k \in 1..Len(calls'[c].parsed) :
                         /\ calls'[c].parsed[k].label = file.content[i].label
                         /\ calls'[c].parsed[k].poolSize
                              = IF file.content[i].poolSize > MaxPoolSize
                                THEN MaxPoolSize
                                ELSE file.content[i].poolSize]_vars

\* C28, amended: a file with a poolSize above the maximum fails validation
\* as a whole: the call reading it is given the empty list, so that none of
\* the file's descriptors is available to it, and the cache is as it was;
\* no published snapshot holds a poolSize above the maximum, and every pool
\* is built with the poolSize of its descriptor, which is within 1 and the
\* maximum.
C28_OversizedPoolRejected ==
    [][/\ \A c \in Slots :
             ReadsOversizedPool(c)
             => /\ ReturnedToArrival(calls'[c], <<>>)
                /\ configCache' = configCache
       /\ configCache' # <<>>
            => \A i \in 1..Len(configCache'[1].connections) :
                  configCache'[1].connections[i].poolSize <= MaxPoolSize
       /\ \A p \in PoolIds :
             poolObjs'[p].made
             => /\ poolObjs'[p].max = poolObjs'[p].conn[1].poolSize
                /\ poolObjs'[p].max >= 1
                /\ poolObjs'[p].max <= MaxPoolSize]_vars

\* The file holds staging with a poolSize of 150 and prod with one of 1, and
\* a pg_query call naming prod has failed with the not-found error listing
\* nothing as available.
C28_Witness ==
    /\ file.exists
    /\ file.content = SourceD
    /\ \E c \in Slots :
          /\ calls[c].tool = "pg_query"
          /\ calls[c].database = "prod"
          /\ calls[c].pc = "done"
          /\ calls[c].thrown = NotFound("prod", <<>>)

----------------------------------------------------------------------------
(* A claim about retries, checked under Spec *)

\* The places in what the call has sent where its statement stands.
StatementsSent(rec) ==
    {i \in 1..Len(rec.cmds) : rec.cmds[i].cmd \in {"QUERY", "EXPLAIN"}}

\* C29: nothing is retried.  At every moment of a tool call pool.connect()
\* has been called at most once for it and its statement has been sent at
\* most once; a call that has ended after its borrow failed has sent
\* nothing, and one that has ended after its statement failed has sent the
\* statement once.
C29_NoRetry ==
    \A c \in Slots :
       LET rec == calls[c]
       IN  /\ rec.borrows <= 1
           /\ Cardinality(StatementsSent(rec)) <= 1
           /\ rec.pc = "done" /\ rec.thrown = <<"connect failed">>
                => rec.borrows = 1 /\ rec.cmds = <<>>
           /\ rec.pc = "done" /\ rec.thrown = <<"statement failed">>
                => rec.borrows = 1 /\ Cardinality(StatementsSent(rec)) = 1

\* A call has ended with the error of its statement, which it sent once on
\* the one client it borrowed.
C29_Witness ==
    \E c \in Slots :
       /\ calls[c].pc = "done"
       /\ calls[c].thrown = <<"statement failed">>
       /\ calls[c].borrows = 1
       /\ Cardinality(StatementsSent(calls[c])) = 1
       /\ \E i \in StatementsSent(calls[c]) :
             calls[c].cmds[i].outcome = "failed"

\* A call waits in the queue of a full pool, where pool.connect() can
\* reject for it.
C29_WitnessExhausted ==
    \E c \in Slots :
       /\ calls[c].pc = "queued"
       /\ ENABLED ConnectFail(c)

----------------------------------------------------------------------------
(* A claim about the cache after its window, checked under ReloadSpec *)

\* `list` is what a full reload makes of the content src: the first
\* descriptor of each label, if it is enabled and passes the label filter,
\* and nothing else.
ReloadedFrom(list, src) ==
    /\ UniqueLabels(list)
    /\ FirstOccurrences(list, src)
    /\ \A i \in 1..Len(list) :
          /\ list[i].enabled
          /\ LABEL_FILTER # "" => list[i].label = LABEL_FILTER
    /\ \A k \in 1..Len(src) :
          (/\ \A j \in 1..(k - 1) : src[j].label # src[k].label
           /\ src[k].enabled
           /\ LABEL_FILTER # "" => src[k].label = LABEL_FILTER)
          => \E i \in 1..Len(list) : list[i] = src[k]

C30_WitnessProbeFailed ==
    \E c \in Slots :
       /\ calls[c].pc = "lc_read"
       /\ configCache # <<>>
       /\ ~file.exists

----------------------------------------------------------------------------
(* A claim about the snapshot as its readers see it, checked under
   ReloadSpec *)

\* The contents a run writes to the file.
WrittenContents == Sources \cup {SourceC, SourceD, Garbage}

\* The list is what a full reload makes of some content of the file.
Complete(list) ==
    \E src \in WrittenContents : Validates(src) /\ ReloadedFrom(list, src)

\* The call is past its own lookup in pg_query's handler and holds conn.
HoldsConn(rec) ==
    /\ rec.conn # <<>>
    /\ rec.pc \notin {"idle", "done"}

\* C31: the cached list changes only in the step that publishes the list a
\* reload has built, and that list is complete, as is every list a reload
\* holds while it awaits the second stat; the refresh of the window after an
\* unchanged stat leaves the list alone; and the descriptor a call took from
\* a list stays as the call took it, whatever is published while the call
\* goes on.
C31_SnapshotReplacedWholesale ==
    [][/\ configCache' # configCache
          => \E c \in Slots :
                /\ calls[c].pc = "lc_stat2"
                /\ calls'[c].pc # "lc_stat2"
                /\ configCache'[1].connections = calls[c].parsed
       /\ configCache' # <<>> => Complete(configCache'[1].connections)
       /\ \A c \in Slots :
             /\ calls'[c].pc = "lc_stat2" => Complete(calls'[c].parsed)
             /\ (HoldsConn(calls[c]) /\ calls'[c].pc # "idle")
                => calls'[c].conn = calls[c].conn]_vars

\* A pg_query call on staging is on its way with the descriptor it took from
\* the snapshot of the time, read-only on db1, and the snapshot published
\* since has staging open for writing on db3.
C31_Witness ==
    \E c \in Slots :
       /\ HoldsConn(calls[c])
       /\ calls[c].conn = <<SourceA[1]>>
       /\ configCache # <<>>
       /\ FindConnection(configCache[1].connections, "staging")
            = <<SourceB[1]>>

----------------------------------------------------------------------------
(* Claims about the scan itself, checked under ClassifierSpec *)

\* The positions of the dollars outside every context that open no body: the
\* tag characters after them are not followed by a second dollar.
BareDollars(s) == {i \in Contexts(s).outside : At(s, i) = "$"}

\* C32: a dollar that is followed by tag characters and no second dollar
\* opens nothing.  A text with such a dollar is classified multi-statement
\* when a semicolon after it, outside every context, has content after it,
\* the context being told as if the dollar were a plain character; and it is
\* classified single-statement when no semicolon outside every context has
\* content after it.
C32_BareDollarOpensNothing ==
    (classified /\ BareDollars(sql) # {})
    => /\ (\E i \in BareDollars(sql), p \in TopLevelSemicolons(sql) :
              p > i /\ ContentAfter(sql, p))
          => verdict = FALSE
       /\ (\A p \in TopLevelSemicolons(sql) : ~ContentAfter(sql, p))
          => verdict = TRUE

\* "$a;a", a dollar with a tag character after it and no second dollar,
\* then a second statement, has been classified multi-statement.
C32_Witness ==
    /\ classified
    /\ sql = <<"$", "a", ";", "a">>
    /\ verdict = FALSE

\* "a $a" has been classified single-statement.
C32_WitnessPlaceholder ==
    /\ classified
    /\ sql = <<"a", " ", "$", "a">>
    /\ verdict = TRUE


\* C33: the scan is total and moves forward only.  At every position of
\* every text given to it an iteration of the loop either returns a boolean or goes on
\* at a position further right; the scan of the whole text ends with a
\* boolean, and that is the verdict.
C33_ScanAdvancesAndTerminates ==
    IF classified
    THEN verdict \in BOOLEAN
    ELSE /\ \A i \in 0..(Len(sql) - 1) :
               LET it == Iteration(sql, i)
               IN  IF it.returned
                   THEN it.value \in BOOLEAN
                   ELSE it.next > i /\ it.next <= Len(sql) + 1
         /\ isSingleStatement(sql) \in BOOLEAN

\* A text that opens a $$ body it never closes and ends with the first
\* character of a comment opener has been classified.
C33_Witness ==
    /\ classified
    /\ sql = <<"$", "$", ";", "a", "-">>
    /\ verdict = TRUE

\* A text with an unclosed quote, and one that is the first character of a
\* block comment opener after a statement, have been classified.
C33_WitnessUnterminatedQuote ==
    /\ classified
    /\ sql \in {<<"'", ";", "a">>, <<"a", "/">>, <<"\"", "-", "-">>,
                <<"/", "*", "*">>}

----------------------------------------------------------------------------
(* A claim about disabled descriptors, checked under ReloadSpec *)

\* The first descriptor of the content that carries the label is disabled.
FirstIsDisabled(src, label) ==
    \E k \in 1..Len(src) :
       /\ src[k].label = label
       /\ ~src[k].enabled
       /\ \A j \in 1..(k - 1) : src[j].label # label

\* The list has a descriptor with the label.
HasLabel(list, label) == \E i \in 1..Len(list) : list[i].label = label

\* C34: no snapshot the cache publishes holds a disabled descriptor; and the
\* list a reload builds from a content has no descriptor for a label whose
\* first descriptor in that content is disabled, whether or not an enabled
\* descriptor with the label follows; that list is what is published.
C34_DisabledNeverPublished ==
    [][/\ configCache' # <<>>
            => \A i \in 1..Len(configCache'[1].connections) :
                  configCache'[1].connections[i].enabled
       /\ \A c \in Slots :
             /\ (calls[c].pc = "lc_read" /\ calls'[c].pc = "lc_stat2")
                => \A label \in Labels :
                      FirstIsDisabled(file.content, label)
                      => ~HasLabel(calls'[c].parsed, label)
             /\ (calls[c].pc = "lc_stat2" /\ calls'[c].pc # "lc_stat2")
                => configCache'[1].connections = calls[c].parsed]_vars

\* The file has prod twice, disabled first and enabled after, and the
\* snapshot published from it has staging and no prod.
C34_Witness ==
    /\ file.exists
    /\ file.content = SourceC
    /\ FirstIsDisabled(SourceC, "prod")
    /\ \E k \in 1..Len(SourceC) :
          SourceC[k].label = "prod" /\ SourceC[k].enabled
    /\ configCache # <<>>
    /\ configCache[1].mtime = file.mtime
    /\ LABEL_FILTER = ""
    /\ HasLabel(configCache[1].connections, "staging")
    /\ ~HasLabel(configCache[1].connections, "prod")

----------------------------------------------------------------------------
(* A claim about the two lookups of pg_query, checked under ReloadSpec *)

\* C35: in a pg_query call that has resolved its pool, the descriptor the
\* handler holds, whose readOnly flag chooses the BEGIN, is the descriptor
\* withPool found and built or reused the pool from.
C35_ModeAndPoolFromSameDescriptor ==
    \A c \in Slots :
       (calls[c].tool = "pg_query" /\ calls[c].pconn # <<>>)
       => calls[c].conn = calls[c].pconn

\* A pg_query call has sent a plain BEGIN, as the descriptor its handler
\* holds has readOnly false, on a client of the pool withPool built from the
\* reloaded descriptor of the same label, which has readOnly true.
C35_ReadWriteOnReadOnlyTarget ==
    \E c \in Slots :
       /\ calls[c].tool = "pg_query"
       /\ calls[c].conn # <<>>
       /\ calls[c].pconn # <<>>
       /\ ~calls[c].conn[1].readOnly
       /\ calls[c].pconn[1].readOnly
       /\ calls[c].pconn[1].label = calls[c].conn[1].label
       /\ calls[c].cmds # <<>>
       /\ calls[c].cmds[1].cmd = "BEGIN"
       /\ poolObjs[calls[c].pool].conn = calls[c].pconn

----------------------------------------------------------------------------
(* A claim about the cache and the file it was read from, checked under
   ReloadSpec *)

\* C36: a call that arrives after the window has ended (its first
\* loadConfig awaits the stat), and whose stat finds the mtime the cache
\* holds, is given the list of the content the file has: the cached list was
\* read from the file as it is now.
C36_CachedListIsOfCurrentFile ==
    [][\A c \in Slots :
          (/\ calls[c].pc = "lc_stat"
           /\ calls[c].conn = <<>>
           /\ calls'[c].pc \notin {"lc_stat", "lc_read"}
           /\ Loadable)
          => ReturnedToArrival(calls'[c], ParseConfig(file.content))]_vars

\* After the window a pg_list_databases call, the only one under way, has
\* been given the cached list on an unchanged mtime, and the list is not
\* that of the file: the file was rewritten once, and the cache holds the
\* content read before the rewrite under the mtime observed after it.
C36_StaleListUnderNewMtime ==
    \E c \in Slots :
       /\ calls[c].tool = "pg_list_databases"
       /\ calls[c].pc = "done"
       /\ \A c2 \in Slots : c2 # c => calls[c2].pc = "idle"
       /\ edits = 1
       /\ Loadable
       /\ configCache # <<>>
       /\ configCache[1].mtime = file.mtime
       /\ cacheAge = 0
       /\ calls[c].result = <<ListResult(configCache[1].connections)>>
       /\ configCache[1].connections # ParseConfig(file.content)

----------------------------------------------------------------------------
(* A claim about the client as it goes back to the pool, checked under
   Spec *)

\* The transaction the call began has not been ended: BEGIN succeeded and
\* neither a COMMIT nor a ROLLBACK has.
TransactionOpen(rec) ==
    /\ rec.begun # "none"
    /\ \A i \in 1..Len(rec.cmds) :
          ~(rec.cmds[i].cmd \in {"COMMIT", "ROLLBACK"}
            /\ rec.cmds[i].outcome = "ok")

\* C37: a call that has released its client has ended the transaction it
\* began on it.
C37_ReleasedOutsideTransaction ==
    \A c \in Slots :
       (calls[c].pc = "done" /\ calls[c].releases > 0)
       => ~TransactionOpen(calls[c])

\* A pg_explain call has run a statement that changes data, its ROLLBACK has
\* failed and the failure was swallowed: the call has released the client
\* with the change pending in the open transaction, and returns success.
C37_ReleasedWithPendingWork ==
    \E c \in Slots :
       /\ calls[c].tool = "pg_explain"
       /\ calls[c].pc = "done"
       /\ calls[c].releases = 1
       /\ TransactionOpen(calls[c])
       /\ calls[c].effect = "pending"
       /\ calls[c].thrown = <<>>
       /\ calls[c].result = <<SuccessResult>>
       /\ poolObjs[calls[c].pool].out = 0

----------------------------------------------------------------------------
(* A claim about the pool of a label that has left the configuration,
   checked under FairReloadSpec *)

\* The published snapshot has no descriptor for the label, removed from the
\* file or disabled in it, and the registry holds a pool for it.
PoolOfRemovedLabel(l) ==
    /\ configCache # <<>>
    /\ ~HasLabel(configCache[1].connections, l)
    /\ pools[l] # <<>>

\* C38: when the published snapshot has lost a label the registry holds a
\* pool for, then later on the registry holds no pool for the label that is
\* not closed, or the label is back in the snapshot.
C38_RemovedLabelPoolRetired ==
    \A l \in Labels :
       PoolOfRemovedLabel(l)
       ~> \/ pools[l] = <<>>
          \/ Ended(pools[l][1].pool)
          \/ HasLabel(configCache[1].connections, l)

\* prod has been disabled in the file and the snapshot published since has
\* no prod; no call is under way and the file can change no more; the
\* registry still holds the pool built for prod, on which end() was never
\* called.
C38_RemovedLabelPoolKept ==
    /\ PoolOfRemovedLabel("prod")
    /\ file.exists
    /\ file.content = SourceB
    /\ edits = MaxEdits
    /\ \A c \in Slots : calls[c].pc = "idle"
    /\ ~poolObjs[pools["prod"][1].pool].ending
    /\ poolObjs[pools["prod"][1].pool].out = 0

----------------------------------------------------------------------------
(* A claim about the pools at exit, checked under ShutdownSpec *)

\* C39: once the process has exited through shutdown, every pool that was
\* ever constructed has had end() called on it and is closed; and from the
\* first invocation of shutdown on, no pool is constructed.
C39_AllPoolsEndedAtExit ==
    [][/\ exited'
            => \A p \in Made(poolObjs') :
                  /\ poolObjs'[p].ending
                  /\ poolObjs'[p].out = 0
                  /\ \A c \in Slots : ~InFlightOn(calls'[c], p)
       /\ shutdowns # <<>> => Made(poolObjs') \subseteq Made(poolObjs)]_vars

\* The process has exited, and a pool that a call still under way
\* constructed after drainAllPools had cleared the registry was never ended:
\* it is the registry's entry for its label and the call is at work on it.
C39_ExitedWithPoolBuiltAfterDrain ==
    /\ exited
    /\ \E p \in Made(poolObjs) :
          /\ ~poolObjs[p].ending
          /\ \A k \in 1..Len(shutdowns) : p \notin shutdowns[k]
          /\ pools[poolObjs[p].label] # <<>>
          /\ pools[poolObjs[p].label][1].pool = p
          /\ \E c \in Slots : InFlightOn(calls[c], p)

====
